---- MODULE Spec2Model ----
(***************************************************************************)
(* Verification model of the photographer-portfolio front end:             *)
(*   Gallery (lightbox + gallery items), ImageLoader (preload cache,       *)
(*   gallery path generation), Slideshow, MobileProject, GridLayout and    *)
(*   the page initialisers of main.js.                                     *)
(*                                                                         *)
(* The modules do not share state, so each one is explored under its own   *)
(* specification (SpecLightbox, SpecSlides, SpecGrid, ...): the variables  *)
(* of the other modules keep their dormant values.                         *)
(***************************************************************************)
EXTENDS Integers, Sequences, FiniteSets, Bags, TLC

(***************************************************************************)
(* Bounds of the exploration                                               *)
(***************************************************************************)
MaxImages == 3          \* gallery sizes explored by the lightbox: 1..MaxImages

(***************************************************************************)
(* Helpers                                                                  *)
(***************************************************************************)
Min(a, b) == IF a <= b THEN a ELSE b
Max(a, b) == IF a >= b THEN a ELSE b
Abs(a) == IF a >= 0 THEN a ELSE 0 - a
\* JavaScript remainder: truncated division, the sign follows the dividend
JsRem(a, b) == IF a >= 0 THEN a % b ELSE 0 - ((0 - a) % b)
\* Math.ceil(a / b) for a >= 0, b > 0
CeilDiv(a, b) == (a + b - 1) \div b

None == -1               \* "no value" marker of index-valued fields

VARIABLES
  \* ---- Gallery (lightbox part) and ImageLoader preload cache ----
  galleryImages,        \* number of images of the gallery; image url i is i
  currentImageIndex,    \* Gallery.currentImageIndex
  lightboxActive,       \* lightbox carries class 'active'
  lightboxSrc,          \* lightboxImage.src (an image url, None before any open)
  projectCounter,       \* text of .project-slideshow-counter as <<shown, total>>
  loadedImages,         \* ImageLoader.loadedImages: set of urls
  requested,            \* url -> number of Image objects created since clearCache
  lastOp                \* the last operation run, with its argument and prior index

VARIABLES
  \* ---- Slideshow (desktop project page) ----
  ssSlides,             \* slides.length
  ssCurrentIndex,       \* Slideshow.currentIndex
  ssIsTransitioning,    \* Slideshow.isTransitioning
  ssActive,             \* indexes of the slides carrying class 'active'
  ssCounter,            \* counter text as <<shown, total>>
  ssTimers,             \* pending setTimeout callbacks: remaining ms, oldest first
  ssLastOp,             \* the last call made to the Slideshow
  \* ---- MobileProject (mobile project page) ----
  mpSlides,             \* slides.length
  mpCurrentSlideIndex,  \* MobileProject.currentSlideIndex
  mpIsTransitioning,    \* MobileProject.isTransitioning
  mpActive,             \* indexes of the slides carrying class 'active'
  mpCounter,            \* slideshowCounter text as <<shown, total>>
  mpTimers,             \* pending setTimeout callbacks: remaining ms, oldest first
  mpLastOp              \* the last call made to MobileProject

VARIABLES
  \* ---- GridLayout ----
  innerWidth,           \* window.innerWidth
  innerHeight,          \* window.innerHeight
  nProjects,            \* number of project items in the grid container
  projectsData,         \* GridLayout.projectsData.length
  gridCols,             \* tracks of style.gridTemplateColumns (0: never written)
  gridRows,             \* tracks of style.gridTemplateRows (0: never written)
  contactCell,          \* grid position of the contact cell
  itemPos,              \* grid position of every project item, in document order
  dims,                 \* the last calculateGridDimensions call and its result
  gridTimers,           \* pending setTimeout callbacks of the resize listener
  resizeTimeout,        \* the timer id held by the resize listener (0: none)
  burstApplied,         \* applyLayout calls made by the resize callback since the last resize
  burstEvents,          \* resize events of the current burst (counted up to MaxBurst)
  sinceResize,          \* ms since the last resize event, up to ResizeDebounceMs
  written               \* the last applyLayout call wrote grid positions

VARIABLES
  \* ---- page initialisers (main.js) ----
  pageKind,             \* "project" (project.html) or "gallery" (gallery.html)
  urlHasParam,          \* the URL has a 'project' query parameter
  urlProject,           \* its value
  hasProjectsGrid,      \* the document has a '.projects-grid' element
  hasSlideshowWrapper,  \* the document has a '.slideshow-wrapper' element
  hasGalleryGrid,       \* the document has a '.gallery-grid' element
  hasInfoElements,      \* the document has the title / description / metadata elements
  pagePc,               \* "loaded", "frame" (animation frame callback pending), "done"
  calls,                \* module functions called by the page initialiser so far
  listeners,            \* window resize listeners registered so far
  docTitle,             \* document.title (OriginalTitle, or the id of the project shown)
  domWrites,            \* parts of the document written by the page initialiser
  visibilityTimer       \* the 50 ms timer of initGalleryPage is pending

VARIABLES
  \* ---- ImageLoader.getGalleryImagePaths ----
  pathProject,          \* the project record passed to getGalleryImagePaths
  inTemplates,          \* window.location.pathname includes 'templates/'
  galleryPaths,         \* the array returned by the last call
  pathsReturned         \* the call has been made

VARIABLES
  \* ---- Gallery.createGalleryItems ----
  giTotal,              \* totalImages (imagePaths.length)
  giObserver,           \* the browser has IntersectionObserver
  giImages,             \* the gallery images, as a bag of image records
  giLoadedCount,        \* loadedCount
  giContainerLoading,   \* the gallery container has class 'loading'
  giRemovalPending,     \* an animation frame callback that removes it is pending
  giSetupPc             \* "frame", "timer100", "timer1500", "done": next setup callback

loaderVars == <<loadedImages, requested>>
itemVars == <<giTotal, giObserver, giImages, giLoadedCount, giContainerLoading,
              giRemovalPending, giSetupPc>>
pathVars == <<pathProject, inTemplates, galleryPaths, pathsReturned>>
windowVars == <<innerWidth, innerHeight>>
pageVars == <<pageKind, urlHasParam, urlProject, hasProjectsGrid, hasSlideshowWrapper,
              hasGalleryGrid, hasInfoElements, pagePc, calls, listeners, docTitle,
              domWrites, visibilityTimer>>
gridVars == <<nProjects, projectsData, gridCols, gridRows,
              contactCell, itemPos, dims, gridTimers, resizeTimeout,
              burstApplied, burstEvents, sinceResize, written>>
lightboxVars == <<galleryImages, currentImageIndex, lightboxActive, lightboxSrc,
                  projectCounter, lastOp>>
slideshowVars == <<ssSlides, ssCurrentIndex, ssIsTransitioning, ssActive, ssCounter,
                   ssTimers, ssLastOp>>
mobileProjectVars == <<mpSlides, mpCurrentSlideIndex, mpIsTransitioning, mpActive,
                       mpCounter, mpTimers, mpLastOp>>

\* UnifiedNavigation on one container: the registrations made by
\* setupNavigation, in order (settings, the listeners still attached, touchData)
VARIABLES navRegs,       \* sequence of registrations; the index is the identity
          navStored,     \* container._unifiedNavigation (index into navRegs), 0 if deleted
          navAreas,      \* the .nav-area elements are in the container
          navRetired,    \* registrations made before a destroyNavigation ran
          navInvoked,    \* callbacks invoked by the last event: <<registration, name>>
          navGesture,    \* the events since the last pointer-down, and the finger's path
          navEnded       \* the kind of gesture the last event ended if it was a
                         \* touchend, "no" if it was another event

navVars == <<navRegs, navStored, navAreas, navRetired, navInvoked, navGesture,
             navEnded>>

\* MobileSlider (homepage at mobile width)
VARIABLES msSlides,             \* slides.length = projects.length
          msCurrentSlideIndex,
          msIsTransitioning,
          msCurrent,            \* indices of the slides carrying class 'current'
          msShown,              \* index of the project whose id, title and link are
                                \* displayed, None before the first write
          msTimers              \* pending setTimeout callbacks: remaining ms

sliderVars == <<msSlides, msCurrentSlideIndex, msIsTransitioning, msCurrent, msShown,
                msTimers>>

\* MobileGallery and the lightbox it mirrors (gallery page)
VARIABLES mgImages,          \* galleryImages.length
          mgActive,          \* the lightbox carries class 'active'
          mgIndex,           \* Gallery's currentImageIndex
          mgSrc,             \* index of the image in lightboxImage.src, None if unset
          mgProjectCounter,  \* text of .project-slideshow-counter, << >> if no such element
          mgCounter,         \* text of the mobile gallery counter: <<shown, total>>
          mgObserving,       \* the lightbox MutationObserver is attached
          mgPoll,            \* a checkForLightbox timeout is pending
          mgListening,       \* the lightbox navigation listeners are added
          mgCounterObserver, \* the observer of the project counter is connected
          mgPending,         \* number of pending 50 ms updateCounterFromLightbox timeouts
          mgLastOp           \* the last event handled

galleryCounterVars == <<mgImages, mgActive, mgIndex, mgSrc, mgProjectCounter, mgCounter,
                        mgObserving, mgPoll, mgListening, mgCounterObserver, mgPending,
                        mgLastOp>>

\* the last click on a gallery item: << >> before the first click, else
\* <<the item's image, whether openLightbox was called>>
VARIABLE giClicked

\* ImageLoader.preloadImages calls that pass a callback
VARIABLES pcCalls,      \* one record per call: its imagePaths, imagesToLoad.length,
                        \* loadedCount, whether the callback has run and, if so, the
                        \* paths of imagePaths whose request was outstanding then
          pcRequests    \* the Image requests that have neither loaded nor failed

preloadVars == <<pcCalls, pcRequests>>

\* GridLayout.calculateGridDimensions called on its own
VARIABLES cgTotalItems,    \* the argument
          cgWidth,         \* window.innerWidth
          cgHeight,        \* window.innerHeight
          cgConfig         \* the object returned, NoConfig before the call
dimVars == <<cgTotalItems, cgWidth, cgHeight, cgConfig>>

\* MobileGallery.destroy() has been called
VARIABLE mgDestroyed

lateVars == <<dimVars, mgDestroyed>>

restVars == <<navVars, sliderVars, galleryCounterVars, giClicked, preloadVars, lateVars>>

vars == <<loaderVars, lightboxVars, slideshowVars, mobileProjectVars, windowVars,
          gridVars, pageVars, pathVars, itemVars, restVars>>

\* what a step of one module leaves alone (the preload cache is written by the
\* Gallery and by the Slideshow, so their actions state it themselves)
exceptGallery == <<slideshowVars, mobileProjectVars, windowVars, gridVars, pageVars,
                   pathVars, itemVars, restVars>>
exceptSlideshow == <<lightboxVars, mobileProjectVars, windowVars, gridVars, pageVars,
                     pathVars, itemVars, restVars>>
exceptMobileProject == <<loaderVars, lightboxVars, slideshowVars, windowVars, gridVars,
                         pageVars, pathVars, itemVars, restVars>>
exceptGrid == <<loaderVars, lightboxVars, slideshowVars, mobileProjectVars, pageVars,
                pathVars, itemVars, restVars>>
exceptPage == <<loaderVars, lightboxVars, slideshowVars, mobileProjectVars, gridVars,
                pathVars, itemVars, restVars>>
exceptPaths == <<loaderVars, lightboxVars, slideshowVars, mobileProjectVars, windowVars,
                 gridVars, pageVars, itemVars, restVars>>
exceptNav == <<loaderVars, lightboxVars, slideshowVars, mobileProjectVars, windowVars,
               gridVars, pageVars, pathVars, itemVars, sliderVars, galleryCounterVars, giClicked, preloadVars,
               lateVars>>
exceptSlider == <<loaderVars, lightboxVars, slideshowVars, mobileProjectVars, windowVars,
                  gridVars, pageVars, pathVars, itemVars, navVars, galleryCounterVars, giClicked, preloadVars,
                  lateVars>>
exceptPreload == <<lightboxVars, slideshowVars, mobileProjectVars, windowVars, gridVars,
                   pageVars, pathVars, itemVars, navVars, sliderVars,
                   galleryCounterVars, giClicked, lateVars>>
exceptGalleryCounter == <<loaderVars, lightboxVars, slideshowVars, mobileProjectVars,
                          windowVars, gridVars, pageVars, pathVars, itemVars, navVars,
                          sliderVars, giClicked, preloadVars, lateVars>>
exceptDims == <<loaderVars, lightboxVars, slideshowVars, mobileProjectVars, windowVars,
                gridVars, pageVars, pathVars, itemVars, navVars, sliderVars,
                galleryCounterVars, giClicked, preloadVars, mgDestroyed>>
exceptGalleryDestroy == <<loaderVars, lightboxVars, slideshowVars, mobileProjectVars,
                          windowVars, gridVars, pageVars, pathVars, itemVars, navVars,
                          sliderVars, giClicked, preloadVars, dimVars>>
exceptItems == <<loaderVars, lightboxVars, slideshowVars, mobileProjectVars, windowVars,
                 gridVars, pageVars, pathVars, restVars>>

(***************************************************************************)
(* ImageLoader.preloadImages                                                *)
(***************************************************************************)
MaxPreloadLen == 2      \* longest imagePaths list passed by a direct caller

\* imagePaths.filter(path => !loadedImages.has(path)): the filter runs over the
\* whole list before any path is added to the cache
ImagesToLoad(imagePaths, cache) ==
  SelectSeq(imagePaths, LAMBDA path : path \notin cache)

\* number of entries of a list equal to path
Occurrences(list, path) == Cardinality({k \in 1..Len(list) : list[k] = path})

\* imagesToLoad.forEach: one new Image (one request) per entry, then cache it
RequestedAfterPreload(imagePaths, cache, req) ==
  LET toLoad == ImagesToLoad(imagePaths, cache)
  IN [u \in DOMAIN req |-> req[u] + Occurrences(toLoad, u)]

CacheAfterPreload(imagePaths, cache) ==
  cache \cup {ImagesToLoad(imagePaths, cache)[k] :
                 k \in 1..Len(ImagesToLoad(imagePaths, cache))}

(***************************************************************************)
(* Gallery: lightbox                                                        *)
(***************************************************************************)
ImageUrls == 0..(galleryImages - 1)

\* Gallery.preloadAdjacentImages: the list handed to ImageLoader.preloadImages
AdjacentImages(index, n) ==
  LET prevIndex == JsRem(index - 1 + n, n)
      nextIndex == JsRem(index + 1, n)
  IN  (IF prevIndex \in 0..(n-1) THEN <<prevIndex>> ELSE << >>)
      \o (IF nextIndex \in 0..(n-1) THEN <<nextIndex>> ELSE << >>)

\* preloadAdjacentImages(): effect on the cache and on the request counters
PreloadAdjacent(index) ==
  LET list == AdjacentImages(index, galleryImages)
  IN  IF Len(list) > 0
      THEN /\ requested' = RequestedAfterPreload(list, loadedImages, requested)
           /\ loadedImages' = CacheAfterPreload(list, loadedImages)
      ELSE UNCHANGED <<requested, loadedImages>>

PrevIndexNoWrap(i, n) == JsRem(i - 1, n)
PrevIndex(i, n) == JsRem(i - 1 + n, n)
NextIndex(i, n) == JsRem(i + 1, n)

\* updateLightboxImage(): src, project cell counter, preload of the neighbours
UpdateLightboxImage(index) ==
  /\ lightboxSrc' = index
  /\ projectCounter' = <<index + 1, galleryImages>>
  /\ PreloadAdjacent(index)

OpenLightbox(index) ==
  /\ UNCHANGED exceptGallery
  /\ lastOp' = [op |-> "openLightbox", arg |-> index, from |-> currentImageIndex]
  /\ IF index < 0 \/ index >= galleryImages
     THEN UNCHANGED <<galleryImages, currentImageIndex, lightboxActive, lightboxSrc,
                      projectCounter, loadedImages, requested>>
     ELSE /\ currentImageIndex' = index
          /\ UpdateLightboxImage(index)
          /\ lightboxActive' = TRUE
          /\ UNCHANGED galleryImages

CloseLightbox ==
  /\ UNCHANGED exceptGallery
  /\ lastOp' = [op |-> "closeLightbox", arg |-> None, from |-> currentImageIndex]
  /\ lightboxActive' = FALSE
  /\ projectCounter' = <<galleryImages, galleryImages>>
  /\ UNCHANGED <<galleryImages, currentImageIndex, lightboxSrc, loadedImages, requested>>

PrevImage ==
  /\ UNCHANGED exceptGallery
  /\ lastOp' = [op |-> "prevImage", arg |-> None, from |-> currentImageIndex]
  /\ currentImageIndex' = PrevIndex(currentImageIndex, galleryImages)
  /\ UpdateLightboxImage(currentImageIndex')
  /\ UNCHANGED <<galleryImages, lightboxActive>>

NextImage ==
  /\ UNCHANGED exceptGallery
  /\ lastOp' = [op |-> "nextImage", arg |-> None, from |-> currentImageIndex]
  /\ currentImageIndex' = NextIndex(currentImageIndex, galleryImages)
  /\ UpdateLightboxImage(currentImageIndex')
  /\ UNCHANGED <<galleryImages, lightboxActive>>

\* Gallery.handleKeyPress: keys act only while the lightbox is visible
LightboxKeys == {"Escape", "ArrowLeft", "ArrowRight", "Enter"}

HandleKeyPress(key) ==
  IF ~lightboxActive \/ key \notin {"Escape", "ArrowLeft", "ArrowRight"}
  THEN /\ UNCHANGED exceptGallery
       /\ lastOp' = [op |-> "keydown", arg |-> None, from |-> currentImageIndex]
       /\ UNCHANGED <<galleryImages, currentImageIndex, lightboxActive, lightboxSrc,
                       projectCounter, loadedImages, requested>>
  ELSE CASE key = "Escape" -> CloseLightbox
         [] key = "ArrowLeft" -> PrevImage
         [] key = "ArrowRight" -> NextImage

\* a direct ImageLoader.preloadImages(imagePaths) call (no callback)
PathLists == UNION {[1..k -> ImageUrls] : k \in 1..MaxPreloadLen}

PreloadImages(imagePaths) ==
  /\ UNCHANGED exceptGallery
  /\ lastOp' = [op |-> "preloadImages", arg |-> None, from |-> currentImageIndex]
  /\ requested' = RequestedAfterPreload(imagePaths, loadedImages, requested)
  /\ loadedImages' = CacheAfterPreload(imagePaths, loadedImages)
  /\ UNCHANGED <<galleryImages, currentImageIndex, lightboxActive, lightboxSrc,
                  projectCounter>>

\* ImageLoader.clearCache(); the request counters restart with the cache
ClearCache ==
  /\ UNCHANGED exceptGallery
  /\ lastOp' = [op |-> "clearCache", arg |-> None, from |-> currentImageIndex]
  /\ loadedImages' = {}
  /\ requested' = [u \in DOMAIN requested |-> 0]
  /\ UNCHANGED <<galleryImages, currentImageIndex, lightboxActive, lightboxSrc,
                  projectCounter>>

\* state after Gallery.init(containerSelector, imagePaths) with n >= 1 paths
LightboxInit ==
  /\ galleryImages \in 1..MaxImages
  /\ currentImageIndex = 0
  /\ lightboxActive = FALSE
  /\ lightboxSrc = None
  /\ projectCounter = <<galleryImages, galleryImages>>
  /\ loadedImages = {}
  /\ requested = [u \in 0..(galleryImages - 1) |-> 0]
  /\ lastOp = [op |-> "init", arg |-> None, from |-> 0]

LoaderOff ==
  /\ loadedImages = {}
  /\ requested = << >>

LightboxOff ==
  /\ galleryImages = 0
  /\ currentImageIndex = 0
  /\ lightboxActive = FALSE
  /\ lightboxSrc = None
  /\ projectCounter = <<0, 0>>
  /\ lastOp = [op |-> "init", arg |-> None, from |-> 0]

(***************************************************************************)
(* Timers (setTimeout): every module keeps the remaining time of its        *)
(* pending callbacks; Tick lets time pass up to the next expiry.            *)
(***************************************************************************)
Quantum == 50           \* ms of time that pass in one Tick (at most)

RECURSIVE SeqMin(_)
SeqMin(t) == IF Len(t) = 1 THEN t[1] ELSE Min(t[1], SeqMin(Tail(t)))

Elapse(t, d) == [k \in 1..Len(t) |-> t[k] - d]

(***************************************************************************)
(* Slideshow                                                                *)
(***************************************************************************)
MaxSlides == 3          \* slide counts explored: 0..MaxSlides
SlideshowLockMs == 300
MobileProjectLockMs == 300

\* a showSlide that clamps an out-of-range index instead of wrapping it
SlideshowBoundClamp(index, n) ==
  IF index < 0 THEN 0 ELSE IF index >= n THEN n - 1 ELSE index

\* "Ensure index is within bounds" of Slideshow.showSlide
SlideshowBound(index, n) ==
  IF index < 0 THEN n - 1 ELSE IF index >= n THEN 0 ELSE index

\* Slideshow.preloadAdjacentImages: slide i holds the image with url i
SlideshowAdjacent(index, n) ==
  LET prevIndex == IF index - 1 < 0 THEN n - 1 ELSE index - 1
      nextIndex == IF index + 1 >= n THEN 0 ELSE index + 1
  IN  (IF prevIndex \in 0..(n-1) THEN <<prevIndex>> ELSE << >>)
      \o (IF nextIndex \in 0..(n-1) THEN <<nextIndex>> ELSE << >>)

SlideshowPreload(index) ==
  LET list == SlideshowAdjacent(index, ssSlides)
  IN  IF Len(list) > 0
      THEN /\ requested' = RequestedAfterPreload(list, loadedImages, requested)
           /\ loadedImages' = CacheAfterPreload(list, loadedImages)
      ELSE UNCHANGED <<requested, loadedImages>>

\* the body of showSlide once the lock has been taken
SlideshowTransition(index) ==
  LET idx == SlideshowBound(index, ssSlides)
  IN  /\ ssIsTransitioning' = TRUE
      /\ ssCurrentIndex' = idx
      /\ IF ssSlides = 0
         THEN \* slides[currentIndex] is undefined: the TypeError ends the call
              UNCHANGED <<ssActive, ssCounter, ssTimers, loadedImages, requested>>
         ELSE /\ ssActive' = {idx}
              /\ ssCounter' = <<idx + 1, ssSlides>>
              /\ SlideshowPreload(idx)
              /\ ssTimers' = Append(ssTimers, SlideshowLockMs)

SlideshowShowSlideNoLock(index) ==
  /\ SlideshowTransition(index)
  /\ UNCHANGED ssSlides

SlideshowShowSlide(index) ==
  IF ssIsTransitioning
  THEN UNCHANGED <<ssSlides, ssCurrentIndex, ssIsTransitioning, ssActive, ssCounter,
                   ssTimers, loadedImages, requested>>
  ELSE /\ SlideshowTransition(index)
       /\ UNCHANGED ssSlides

\* Slideshow.showSlide(index) called through the public API
ShowSlide(index) ==
  /\ ssLastOp' = [op |-> "showSlide", arg |-> index, locked |-> ssIsTransitioning,
                  from |-> ssCurrentIndex]
  /\ SlideshowShowSlide(index)
  /\ UNCHANGED exceptSlideshow

\* Slideshow.prev(): navigation area click, ArrowLeft, swipe right
Prev ==
  /\ ssLastOp' = [op |-> "prev", arg |-> ssCurrentIndex - 1,
                  locked |-> ssIsTransitioning, from |-> ssCurrentIndex]
  /\ SlideshowShowSlide(ssCurrentIndex - 1)
  /\ UNCHANGED exceptSlideshow

\* Slideshow.next(): navigation area click, ArrowRight, swipe left, autoplay
Next ==
  /\ ssLastOp' = [op |-> "next", arg |-> ssCurrentIndex + 1,
                  locked |-> ssIsTransitioning, from |-> ssCurrentIndex]
  /\ SlideshowShowSlide(ssCurrentIndex + 1)
  /\ UNCHANGED exceptSlideshow

\* the callback of showSlide's setTimeout
SlideshowTimer ==
  /\ Len(ssTimers) > 0
  /\ ssTimers[1] = 0
  /\ ssIsTransitioning' = FALSE
  /\ ssTimers' = Tail(ssTimers)
  /\ UNCHANGED <<ssSlides, ssCurrentIndex, ssActive, ssCounter, ssLastOp>>
  /\ UNCHANGED <<loaderVars, exceptSlideshow>>

\* state after Slideshow.init: createSlides preloads around slide 0 and
\* showSlide(0) runs when there is a slide
SlideshowInit ==
  /\ ssSlides \in 0..MaxSlides
  /\ ssCurrentIndex = 0
  /\ ssIsTransitioning = (ssSlides > 0)
  /\ ssActive = IF ssSlides > 0 THEN {0} ELSE {}
  /\ ssCounter = <<1, ssSlides>>
  /\ ssTimers = IF ssSlides > 0 THEN <<SlideshowLockMs>> ELSE << >>
  /\ ssLastOp = [op |-> "init", arg |-> 0, locked |-> FALSE, from |-> 0]
  /\ loadedImages = {SlideshowAdjacent(0, ssSlides)[k] :
                       k \in 1..Len(SlideshowAdjacent(0, ssSlides))}
  /\ requested = RequestedAfterPreload(SlideshowAdjacent(0, ssSlides), {},
                                       [u \in 0..(ssSlides - 1) |-> 0])

SlideshowOff ==
  /\ ssSlides = 0
  /\ ssCurrentIndex = 0
  /\ ssIsTransitioning = FALSE
  /\ ssActive = {}
  /\ ssCounter = <<0, 0>>
  /\ ssTimers = << >>
  /\ ssLastOp = [op |-> "init", arg |-> 0, locked |-> FALSE, from |-> 0]

(***************************************************************************)
(* MobileProject                                                            *)
(***************************************************************************)
\* "Ensure index is within bounds" of MobileProject.showSlide (two ifs in a row)
MobileProjectBound(index, n) ==
  LET low == IF index < 0 THEN n - 1 ELSE index
  IN  IF low >= n THEN 0 ELSE low

MobileProjectTransition(index) ==
  LET idx == MobileProjectBound(index, mpSlides)
  IN  /\ mpIsTransitioning' = TRUE
      /\ mpCurrentSlideIndex' = idx
      /\ mpActive' = {idx}
      /\ mpCounter' = <<idx + 1, mpSlides>>
      /\ mpTimers' = Append(mpTimers, MobileProjectLockMs)

MobileProjectShowSlide(index) ==
  IF mpIsTransitioning \/ mpSlides = 0
  THEN UNCHANGED <<mpSlides, mpCurrentSlideIndex, mpIsTransitioning, mpActive,
                   mpCounter, mpTimers>>
  ELSE /\ MobileProjectTransition(index)
       /\ UNCHANGED mpSlides

\* MobileProject.prevSlide(): swipe down, ArrowLeft
PrevSlide ==
  /\ mpLastOp' = [op |-> "prevSlide", arg |-> mpCurrentSlideIndex - 1,
                  locked |-> mpIsTransitioning, from |-> mpCurrentSlideIndex]
  /\ MobileProjectShowSlide(mpCurrentSlideIndex - 1)
  /\ UNCHANGED exceptMobileProject

\* MobileProject.nextSlide(): swipe up, ArrowRight
NextSlide ==
  /\ mpLastOp' = [op |-> "nextSlide", arg |-> mpCurrentSlideIndex + 1,
                  locked |-> mpIsTransitioning, from |-> mpCurrentSlideIndex]
  /\ MobileProjectShowSlide(mpCurrentSlideIndex + 1)
  /\ UNCHANGED exceptMobileProject

\* the callback of showSlide's setTimeout
MobileProjectTimer ==
  /\ Len(mpTimers) > 0
  /\ mpTimers[1] = 0
  /\ mpIsTransitioning' = FALSE
  /\ mpTimers' = Tail(mpTimers)
  /\ UNCHANGED <<mpSlides, mpCurrentSlideIndex, mpActive, mpCounter, mpLastOp>>
  /\ UNCHANGED exceptMobileProject

\* state after MobileProject.init: initializeSlideshow shows slide 0 when the
\* project has slideshow images
MobileProjectInit ==
  /\ mpSlides \in 0..MaxSlides
  /\ mpCurrentSlideIndex = 0
  /\ mpIsTransitioning = (mpSlides > 0)
  /\ mpActive = IF mpSlides > 0 THEN {0} ELSE {}
  /\ mpCounter = <<1, Max(mpSlides, 1)>>
  /\ mpTimers = IF mpSlides > 0 THEN <<MobileProjectLockMs>> ELSE << >>
  /\ mpLastOp = [op |-> "init", arg |-> 0, locked |-> FALSE, from |-> 0]

MobileProjectOff ==
  /\ mpSlides = 0
  /\ mpCurrentSlideIndex = 0
  /\ mpIsTransitioning = FALSE
  /\ mpActive = {}
  /\ mpCounter = <<0, 0>>
  /\ mpTimers = << >>
  /\ mpLastOp = [op |-> "init", arg |-> 0, locked |-> FALSE, from |-> 0]

(***************************************************************************)
(* GridLayout (3-row preference version)                                    *)
(***************************************************************************)
MaxProjects == 9        \* project counts explored: 0..MaxProjects
MaxTracks == 5          \* track counts getComputedStyle may report: 1..MaxTracks
PreferredRows == 3
MaxRows == 4
MobileBreakpoint == 768
ResizeDebounceMs == 100
MaxBurst == 3           \* resize events counted per burst

\* window.innerWidth x window.innerHeight of the explored windows
Viewports == {<<320, 568>>, <<600, 200>>, <<768, 1024>>,
              <<1024, 768>>, <<1200, 300>>, <<1920, 1080>>}

\* <<size, n>> among the explored sizes and n in 1..15 for which the double
\* product (size / n) * n is larger than size
RoundsUp == {<<200, 11>>, <<900, 7>>, <<900, 14>>, <<1800, 7>>, <<1800, 14>>}

\* a / b < c / d for b > 0, d > 0, by comparing the continued fractions
RECURSIVE FracLess(_, _, _, _)
FracLess(a, b, c, d) ==
  LET qa == a \div b
      qc == c \div d
      ra == a % b
      rc == c % d
  IN  IF qa # qc THEN qa < qc
      ELSE IF rc = 0 THEN FALSE
      ELSE IF ra = 0 THEN TRUE
      ELSE FracLess(d, rc, b, ra)

IsMobile(width) == width <= MobileBreakpoint

\* minCellWidth * 100 and minCellHeight for the viewport class of the width
MinCellWidth100(width) ==
  IF width <= 480 THEN Max(100 * 100, 25 * width)
  ELSE IF width <= 768 THEN Max(120 * 100, 20 * width)
  ELSE IF width <= 1024 THEN Max(140 * 100, 18 * width)
  ELSE IF width <= 1400 THEN Max(160 * 100, 16 * width)
  ELSE Max(200 * 100, 15 * width)

MinCellHeight(width) ==
  IF width <= 480 THEN 70
  ELSE IF width <= 768 THEN 90
  ELSE IF width <= 1024 THEN 110
  ELSE IF width <= 1400 THEN 130
  ELSE 150

EffectiveItemsDesktopOnly(totalItems, width) == totalItems
EffectiveItems(totalItems, width) ==
  IF IsMobile(width) THEN totalItems + 1 ELSE totalItems

IsAcceptableSize(width, height, cols, rows) ==
  /\ 100 * width >= MinCellWidth100(width) * cols
  /\ height >= MinCellHeight(width) * rows

\* 80% tolerance on both minimums
IsViableSize(width, height, cols, rows) ==
  /\ 1000 * width >= 8 * MinCellWidth100(width) * cols
  /\ 10 * height >= 8 * MinCellHeight(width) * rows

FitsViewport(width, height, cols, rows) ==
  /\ <<width, cols>> \notin RoundsUp
  /\ <<height, rows>> \notin RoundsUp

\* A score is kept as the exact fraction
\*     num * mult / (3900 * height * cr * ScoreScale)  +  bonus
\* num / (3900 * height * cr) is ratioScore + sizeScore; mult is the product of
\* aspectPenalty (x2), rowPreferenceBonus (x2), sizeBonus (x10) and
\* viewportBonus (x10); ScoreScale carries those factors and the 0.25 weights.
ScoreScale == 4 * 2 * 2 * 10 * 10

TotalScore(width, height, cols, rows) ==
  LET ratioTerm == 3900 * cols * height * rows
                   - 300 * rows * Abs(10 * width * rows - 13 * cols * height)
      sizeTerm == 13 * height * Min(width * rows, height * cols)
      aspectPenalty2 == IF width * rows > 3 * cols * height
                           \/ 10 * width * rows < 3 * cols * height
                        THEN 1 ELSE 2
      rowPreferenceBonus2 == IF rows = PreferredRows THEN 4
                             ELSE IF rows = PreferredRows + 1 THEN 2 ELSE 1
      sizeBonus10 == IF IsAcceptableSize(width, height, cols, rows) THEN 15
                     ELSE IF IsViableSize(width, height, cols, rows) THEN 12
                     ELSE 10
      viewportBonus10 == IF FitsViewport(width, height, cols, rows) THEN 13 ELSE 8
  IN  [num |-> ratioTerm + sizeTerm, cr |-> cols * rows,
       mult |-> aspectPenalty2 * rowPreferenceBonus2 * sizeBonus10 * viewportBonus10,
       bonus |-> 0]

\* totalScore > bestScore for two scores of the same viewport (no bonus yet)
ScoreGreater(s, best) == FracLess(best.num, best.cr * s.mult, s.num, s.cr * best.mult)

\* score < 3/2 for a layout score of a viewport of that height
ScoreBelowThreshold(s, height) ==
  FracLess(s.num, 3900 * height * s.cr, (ScoreScale \div 2) * (3 - 2 * s.bonus), s.mult)

NoConfig == [cols |-> 0, rows |-> 0, totalItems |-> 0,
             score |-> [num |-> 0, cr |-> 1, mult |-> 1, bonus |-> 0]]

\* the for loop over rows = preferredRows .. maxRows
RECURSIVE SearchRows(_, _, _, _, _)
SearchRows(rows, bestConfig, effectiveItems, width, height) ==
  IF rows > MaxRows THEN bestConfig
  ELSE
    LET cols == CeilDiv(effectiveItems, rows)
        isAcceptableSize == IsAcceptableSize(width, height, cols, rows)
        isViableSize == IsViableSize(width, height, cols, rows)
        fitsViewport == FitsViewport(width, height, cols, rows)
        totalScore == TotalScore(width, height, cols, rows)
        candidate == [cols |-> cols, rows |-> rows, totalItems |-> effectiveItems,
                      score |-> totalScore]
        newBest == IF bestConfig = NoConfig \/ ScoreGreater(totalScore, bestConfig.score)
                   THEN candidate ELSE bestConfig
    IN  IF ~isAcceptableSize /\ ~isViableSize /\ rows < MaxRows
        THEN SearchRows(rows + 1, bestConfig, effectiveItems, width, height)
        ELSE IF rows = PreferredRows /\ (isAcceptableSize \/ isViableSize) /\ fitsViewport
        THEN [newBest EXCEPT !.score.bonus = 1]
        ELSE SearchRows(rows + 1, newBest, effectiveItems, width, height)

\* GridLayout.calculateGridDimensions(totalItems) in a window of that size
CalculateGridDimensions(totalItems, width, height) ==
  LET effectiveItems == EffectiveItems(totalItems, width)
      bestConfig == SearchRows(PreferredRows, NoConfig, effectiveItems, width, height)
  IN  IF bestConfig = NoConfig \/ <<width, bestConfig.cols>> \in RoundsUp
      THEN \* forced fit, score 0.5
           LET cols == CeilDiv(effectiveItems, PreferredRows)
           IN  [cols |-> cols, rows |-> PreferredRows, totalItems |-> effectiveItems,
                score |-> [num |-> 3900 * height * cols * PreferredRows,
                           cr |-> cols * PreferredRows,
                           mult |-> ScoreScale \div 2, bonus |-> 0]]
      ELSE bestConfig

\* ---- positions written by applyLayout ----
NoPosition == [row |-> 0, col |-> 0, end |-> 0]     \* gridRow = gridColumn = ''
Cell(row, col) == [row |-> row, col |-> col, end |-> col + 1]

ContactColSpan(cols, isMobile) == IF isMobile THEN Min(2, cols) ELSE 1

IsContactPosition(row, col, contactRow, contactColSpan, isMobile) ==
  IF isMobile
  THEN row = contactRow /\ col >= 1 /\ col < 1 + contactColSpan
  ELSE row = contactRow /\ col = 1

\* the cells visited by the two position loops that are not skipped, in order
FreeCells(cols, rows, contactColSpan, isMobile) ==
  LET all == [m \in 1..(cols * rows) |->
                <<((m - 1) \div cols) + 1, ((m - 1) % cols) + 1>>]
  IN  SelectSeq(all, LAMBDA rc :
        ~IsContactPosition(rc[1], rc[2], rows, contactColSpan, isMobile))

PositionItems(count, cols, rows, contactColSpan, isMobile) ==
  LET free == FreeCells(cols, rows, contactColSpan, isMobile)
  IN  [i \in 1..count |->
         IF i <= Len(free) THEN Cell(free[i][1], free[i][2]) ELSE NoPosition]

PositionContact(cols, rows, isMobile) ==
  [row |-> rows, col |-> 1, end |-> 1 + ContactColSpan(cols, isMobile)]

\* GridLayout.expandLastRowItems: the items of the last row, in document order
LastRowItems(items, rows) ==
  SelectSeq([i \in 1..Len(items) |-> i], LAMBDA i : items[i].row = rows)

ExpandedColumnOverlapping(leftoverCols, index) == leftoverCols + index
ExpandedColumn(leftoverCols, index) == leftoverCols + 1 + index

ExpandContact(contact, items, cols, rows) ==
  LET projectsInLastRow == Len(LastRowItems(items, rows))
  IN  IF projectsInLastRow > 0 /\ projectsInLastRow + 1 < cols
      THEN [contact EXCEPT !.col = 1, !.end = (cols - projectsInLastRow) + 1]
      ELSE contact

ExpandItems(items, cols, rows) ==
  LET last == LastRowItems(items, rows)
      projectsInLastRow == Len(last)
      leftoverCols == cols - projectsInLastRow
  IN  IF projectsInLastRow > 0 /\ projectsInLastRow + 1 < cols
      THEN [i \in 1..Len(items) |->
              IF \E k \in 1..Len(last) : last[k] = i
              THEN LET k == CHOOSE k \in 1..Len(last) : last[k] = i
                   IN  [items[i] EXCEPT !.col = ExpandedColumn(leftoverCols, k - 1),
                                        !.end = ExpandedColumn(leftoverCols, k - 1) + 1]
              ELSE items[i]]
      ELSE items

ForceGridUpdate == FALSE      \* window.forceGridUpdate is never assigned

\* applyLayout goes past its two early returns
WritesGrid(layout, currentCols, currentRows, height) ==
  LET needsGridUpdate == currentCols # layout.cols \/ currentRows # layout.rows
      isLayoutSignificantlyDifferent ==
        Abs(currentCols - layout.cols) > 1 \/ Abs(currentRows - layout.rows) > 1
  IN  IF ~needsGridUpdate /\ ~ForceGridUpdate THEN FALSE
      ELSE IF ~isLayoutSignificantlyDifferent
              /\ ScoreBelowThreshold(layout.score, height)
              /\ ~ForceGridUpdate THEN FALSE
      ELSE TRUE

\* GridLayout.applyLayout(projects) with `count` projects; currentCols and
\* currentRows are the track counts read back from getComputedStyle, which
\* depend on the browser's resolved value of the container's grid templates
ApplyLayoutBody(count) ==
  LET isMobile == IsMobile(innerWidth)
      totalItems == count + 1
      layout == CalculateGridDimensions(totalItems, innerWidth, innerHeight)
      placed == PositionItems(nProjects, layout.cols, layout.rows,
                              ContactColSpan(layout.cols, isMobile), isMobile)
      contact == PositionContact(layout.cols, layout.rows, isMobile)
  IN  /\ projectsData' = count
      /\ dims' = [totalItems |-> totalItems, width |-> innerWidth,
                  height |-> innerHeight, cols |-> layout.cols, rows |-> layout.rows]
      /\ \E writes \in { WritesGrid(layout, currentCols, currentRows, innerHeight) :
                             currentCols \in 1..MaxTracks, currentRows \in 1..MaxTracks } :
           /\ written' = writes
           /\ IF writes
              THEN /\ gridCols' = layout.cols
                   /\ gridRows' = layout.rows
                   /\ contactCell' = ExpandContact(contact, placed, layout.cols, layout.rows)
                   /\ itemPos' = ExpandItems(placed, layout.cols, layout.rows)
              ELSE UNCHANGED <<gridCols, gridRows, contactCell, itemPos>>

\* GridLayout.applyLayout(projects) called by the page (initHomepage,
\* initProjectPage, initGalleryPage) or by the projectsLoaded listener
ApplyLayout ==
  /\ ApplyLayoutBody(nProjects)
  /\ UNCHANGED <<innerWidth, innerHeight, nProjects, gridTimers, resizeTimeout,
                 burstApplied, burstEvents, sinceResize>>
  /\ UNCHANGED exceptGrid

\* smallest timer id that no pending timer carries
FreshTimerId(timers) ==
  CHOOSE id \in 1..(Len(timers) + 1) :
    /\ \A k \in 1..Len(timers) : timers[k].id # id
    /\ \A j \in 1..(id - 1) : \E k \in 1..Len(timers) : timers[k].id = j

ClearTimeoutNoop(timers, id) == timers
ClearTimeout(timers, id) == SelectSeq(timers, LAMBDA t : t.id # id)

\* the window 'resize' listener installed by GridLayout.init
Resize(width, height) ==
  /\ innerWidth' = width
  /\ innerHeight' = height
  /\ LET cleared == ClearTimeout(gridTimers, resizeTimeout)
         id == FreshTimerId(cleared)
     IN  /\ gridTimers' = Append(cleared, [id |-> id, rem |-> ResizeDebounceMs])
         /\ resizeTimeout' = id
  /\ burstApplied' = 0
  /\ burstEvents' = IF sinceResize # None /\ sinceResize < ResizeDebounceMs
                    THEN Min(MaxBurst, burstEvents + 1) ELSE 1
  /\ sinceResize' = 0
  /\ UNCHANGED <<nProjects, projectsData, gridCols, gridRows, contactCell, itemPos,
                 dims, written>>
  /\ UNCHANGED exceptGrid

\* the callback of the resize listener's setTimeout
ResizeTimer ==
  /\ Len(gridTimers) > 0
  /\ gridTimers[1].rem = 0
  /\ gridTimers' = Tail(gridTimers)
  /\ IF projectsData > 0
     THEN /\ ApplyLayoutBody(projectsData)
          /\ burstApplied' = burstApplied + 1
     ELSE UNCHANGED <<projectsData, gridCols, gridRows, contactCell, itemPos,
                      dims, written, burstApplied>>
  /\ UNCHANGED <<innerWidth, innerHeight, nProjects, resizeTimeout, burstEvents,
                 sinceResize>>
  /\ UNCHANGED exceptGrid

\* state after GridLayout.init(containerSelector) on a page whose grid holds
\* the contact cell (placed by the stylesheet) and one item per project
GridInit ==
  /\ \E vp \in Viewports : innerWidth = vp[1] /\ innerHeight = vp[2]
  /\ nProjects \in 0..MaxProjects
  /\ projectsData = 0
  /\ gridCols = 0
  /\ gridRows = 0
  /\ contactCell = [row |-> 3, col |-> 1, end |-> 2]
  /\ itemPos = [i \in 1..nProjects |-> NoPosition]
  /\ dims = [totalItems |-> 0, width |-> 0, height |-> 0, cols |-> 0, rows |-> 0]
  /\ gridTimers = << >>
  /\ resizeTimeout = 0
  /\ burstApplied = 0
  /\ burstEvents = 0
  /\ sinceResize = None
  /\ written = FALSE

WindowOff ==
  /\ innerWidth = 0
  /\ innerHeight = 0

GridOff ==
  /\ nProjects = 0
  /\ projectsData = 0
  /\ gridCols = 0
  /\ gridRows = 0
  /\ contactCell = NoPosition
  /\ itemPos = << >>
  /\ dims = [totalItems |-> 0, width |-> 0, height |-> 0, cols |-> 0, rows |-> 0]
  /\ gridTimers = << >>
  /\ resizeTimeout = 0
  /\ burstApplied = 0
  /\ burstEvents = 0
  /\ sinceResize = None
  /\ written = FALSE

(***************************************************************************)
(* Page initialisers (main.js)                                              *)
(***************************************************************************)
\* a projects table whose fifth entry repeats the id of the fourth
ProjectTableDuplicate ==
  <<"P-01", "P-02", "P-03", "P-04", "P-04", "P-06", "P-07", "P-08", "P-09">>

\* the id of each entry of the projects table, in the order of the table
ProjectTable ==
  <<"P-01", "P-02", "P-03", "P-04", "P-05", "P-06", "P-07", "P-08", "P-09">>

\* ids of the projects table
ProjectIds == {ProjectTable[k] : k \in DOMAIN ProjectTable}

\* totalImages of the projects table (0: no such entry)
TotalImages(id) ==
  CASE id = "P-01" -> 56  [] id = "P-02" -> 15  [] id = "P-03" -> 110
    [] id = "P-04" -> 137 [] id = "P-05" -> 50  [] id = "P-06" -> 35
    [] id = "P-07" -> 83  [] id = "P-08" -> 32  [] id = "P-09" -> 93
    [] OTHER -> 0

\* values of the 'project' query parameter that are explored
UrlProjectValues == {"", "P-01", "P-04", "P-09", "p-01", "P-10", "P-1"}

OriginalTitle == "original"

\* Navigation.getProjectIdFromUrl() is null, or is the empty string
IsFalsy(hasParam, value) == ~hasParam \/ value = ""

\* projects.find(p => p.id === projectId) finds an entry
ProjectFoundAny(projectId) == TRUE
ProjectFound(projectId) == projectId \in ProjectIds

\* what the desktop branch does to '.projects-grid', when the page has one
RenderStaticGrid(present) ==
  IF present
  THEN [calls |-> {"GridLayout.init", "GridLayout.applyLayout"},
        listeners |-> {"GridLayout resize"},
        dom |-> {"projects-grid"}]
  ELSE [calls |-> {}, listeners |-> {}, dom |-> {}]

\* initProjectPage()
InitProjectPage ==
  /\ pagePc = "loaded"
  /\ pageKind = "project"
  /\ pagePc' = "done"
  /\ IF IsFalsy(urlHasParam, urlProject) THEN
       UNCHANGED <<calls, listeners, docTitle, domWrites>>
     ELSE IF ~ProjectFound(urlProject) THEN
       UNCHANGED <<calls, listeners, docTitle, domWrites>>
     ELSE IF IsMobile(innerWidth) THEN
       /\ calls' = calls \cup {"MobileProject.init"}
       /\ UNCHANGED <<listeners, docTitle, domWrites>>
     ELSE
       LET grid == RenderStaticGrid(hasProjectsGrid)
           slideshow == IF hasSlideshowWrapper /\ TotalImages(urlProject) > 0
                        THEN {"Slideshow.init"} ELSE {}
       IN  /\ calls' = calls \cup grid.calls \cup slideshow \cup {"initProjectInfoToggle"}
           /\ listeners' = listeners \cup grid.listeners
           /\ docTitle' = urlProject
           /\ domWrites' = domWrites \cup grid.dom
                             \cup (IF hasInfoElements THEN {"project-info"} ELSE {})
  /\ UNCHANGED <<pageKind, urlHasParam, urlProject, hasProjectsGrid, hasSlideshowWrapper,
                 hasGalleryGrid, hasInfoElements, visibilityTimer>>
  /\ UNCHANGED windowVars
  /\ UNCHANGED exceptPage

\* initGalleryPage(), up to its requestAnimationFrame call
InitGalleryPage ==
  /\ pagePc = "loaded"
  /\ pageKind = "gallery"
  /\ IF IsFalsy(urlHasParam, urlProject) THEN
       /\ pagePc' = "done"
       /\ UNCHANGED <<calls, domWrites>>
     ELSE IF ~ProjectFound(urlProject) THEN
       /\ pagePc' = "done"
       /\ UNCHANGED <<calls, domWrites>>
     ELSE
       /\ pagePc' = "frame"
       /\ calls' = IF IsMobile(innerWidth) THEN calls \cup {"MobileGallery.init"} ELSE calls
       /\ domWrites' = IF hasGalleryGrid THEN domWrites \cup {"gallery-grid style"}
                       ELSE domWrites
  /\ UNCHANGED <<pageKind, urlHasParam, urlProject, hasProjectsGrid, hasSlideshowWrapper,
                 hasGalleryGrid, hasInfoElements, listeners, docTitle, visibilityTimer>>
  /\ UNCHANGED windowVars
  /\ UNCHANGED exceptPage

\* the requestAnimationFrame callback of initGalleryPage
GalleryPageFrame ==
  /\ pagePc = "frame"
  /\ pagePc' = "done"
  /\ LET desktop == innerWidth > MobileBreakpoint
         grid == RenderStaticGrid(desktop /\ hasProjectsGrid)
         gallery == hasGalleryGrid /\ TotalImages(urlProject) > 0
     IN  /\ calls' = calls \cup grid.calls
                       \cup (IF gallery THEN {"Gallery.init"} ELSE {})
                       \cup (IF desktop THEN {"initProjectInfoToggle"} ELSE {})
         /\ listeners' = listeners \cup grid.listeners \cup {"handleGalleryResize"}
         /\ docTitle' = urlProject
         /\ domWrites' = domWrites \cup grid.dom
                           \cup (IF desktop /\ hasInfoElements THEN {"project-info"} ELSE {})
                           \cup (IF gallery THEN {"gallery-grid visibility"} ELSE {})
         /\ visibilityTimer' = gallery
  /\ UNCHANGED <<pageKind, urlHasParam, urlProject, hasProjectsGrid, hasSlideshowWrapper,
                 hasGalleryGrid, hasInfoElements>>
  /\ UNCHANGED windowVars
  /\ UNCHANGED exceptPage

\* the 50 ms setTimeout callback that shows the gallery container again
GalleryVisible ==
  /\ visibilityTimer
  /\ visibilityTimer' = FALSE
  /\ UNCHANGED <<pageKind, urlHasParam, urlProject, hasProjectsGrid, hasSlideshowWrapper,
                 hasGalleryGrid, hasInfoElements, pagePc, calls, listeners, docTitle,
                 domWrites>>
  /\ UNCHANGED windowVars
  /\ UNCHANGED exceptPage

\* a window resize on the page: handleGalleryResize runs when it is registered
PageResize(width, height) ==
  /\ innerWidth' = width
  /\ innerHeight' = height
  /\ IF "handleGalleryResize" \in listeners
     THEN calls' = calls \cup {IF width > MobileBreakpoint THEN "MobileGallery.destroy"
                               ELSE "MobileGallery.init"}
     ELSE UNCHANGED calls
  /\ UNCHANGED <<pageKind, urlHasParam, urlProject, hasProjectsGrid, hasSlideshowWrapper,
                 hasGalleryGrid, hasInfoElements, pagePc, listeners, docTitle, domWrites,
                 visibilityTimer>>
  /\ UNCHANGED exceptPage

\* project.html or gallery.html has been loaded and initApp has chosen the
\* page initialiser, which has not run yet
PageInit ==
  /\ pageKind \in {"project", "gallery"}
  /\ urlHasParam \in BOOLEAN
  /\ urlProject \in (IF urlHasParam THEN UrlProjectValues ELSE {""})
  /\ hasProjectsGrid \in BOOLEAN
  /\ hasSlideshowWrapper \in BOOLEAN
  /\ hasGalleryGrid \in BOOLEAN
  /\ hasInfoElements \in BOOLEAN
  /\ pagePc = "loaded"
  /\ calls = {}
  /\ listeners = {}
  /\ docTitle = OriginalTitle
  /\ domWrites = {}
  /\ visibilityTimer = FALSE

PageOff ==
  /\ pageKind = "none"
  /\ urlHasParam = FALSE
  /\ urlProject = ""
  /\ hasProjectsGrid = FALSE
  /\ hasSlideshowWrapper = FALSE
  /\ hasGalleryGrid = FALSE
  /\ hasInfoElements = FALSE
  /\ pagePc = "loaded"
  /\ calls = {}
  /\ listeners = {}
  /\ docTitle = OriginalTitle
  /\ domWrites = {}
  /\ visibilityTimer = FALSE

\* the browser window of an initialised page
WindowInit == \E vp \in Viewports : innerWidth = vp[1] /\ innerHeight = vp[2]

(***************************************************************************)
(* ImageLoader.getGalleryImagePaths                                         *)
(* Strings are sequences of one-character strings.                          *)
(***************************************************************************)
MaxPathImages == 10     \* totalImages explored: 0..MaxPathImages

\* the four placeholders
Placeholder ==
  [ id |->
      <<"{", "i", "d", "}">>,
    i |->
      <<"{", "i", "}">>,
    i2 |->
      <<"{", "i", "2", "}">>,
    folder |->
      <<"{", "f", "o", "l", "d", "e", "r", "}">> ]
Placeholders == {Placeholder[k] : k \in DOMAIN Placeholder}

\* naming patterns: the README's three examples (photo, shot, img), one with
\* each placeholder once and one with {i} twice
Pattern ==
  [ photo |->
      <<"i", "m", "a", "g", "e", "s", "/", "{", "i", "d", "}", "/", "p", "h",
        "o", "t", "o", "-", "{", "i", "2", "}", ".", "w", "e", "b", "p">>,
    shot |->
      <<"i", "m", "a", "g", "e", "s", "/", "{", "i", "d", "}", "/", "{", "i",
        "d", "}", "-", "s", "h", "o", "t", "-", "{", "i", "}", ".", "w", "e",
        "b", "p">>,
    img |->
      <<"i", "m", "a", "g", "e", "s", "/", "{", "f", "o", "l", "d", "e", "r",
        "}", "/", "i", "m", "g", "_", "{", "i", "2", "}", ".", "w", "e", "b",
        "p">>,
    plain |->
      <<"{", "f", "o", "l", "d", "e", "r", "}", "/", "{", "i", "}", ".", "w",
        "e", "b", "p">>,
    twice |->
      <<"{", "f", "o", "l", "d", "e", "r", "}", "/", "{", "i", "}", "/", "{",
        "i", "d", "}", "_", "{", "i", "}", ".", "w", "e", "b", "p">> ]
NamingPatterns == {Pattern[k] : k \in DOMAIN Pattern}

\* string literals: two project ids with their generateProjectNameSlug
\* entries, a folder name, the literals of the code, and two hand-written
\* paths for galleryImages and slideTemplates
Str ==
  [ p03 |->
      <<"P", "-", "0", "3">>,
    p01 |->
      <<"P", "-", "0", "1">>,
    slug03 |->
      <<"M", "o", "r", "o", "c", "c", "o">>,
    slug01 |->
      <<"L", "a", "d", "a", "k", "h", "i", "-", "B", "a", "k", "e", "r", "s">>,
    folder |->
      <<"m", "o", "r", "o", "c", "c", "o">>,
    images |->
      <<"i", "m", "a", "g", "e", "s", "/">>,
    webp |->
      <<".", "w", "e", "b", "p">>,
    up |->
      <<".", ".", "/">>,
    http |->
      <<"h", "t", "t", "p">>,
    listedA |->
      <<"i", "m", "a", "g", "e", "s", "/", "P", "-", "0", "3", "/", "a", ".",
        "w", "e", "b", "p">>,
    listedB |->
      <<"h", "t", "t", "p", ":", "/", "/", "c", "d", "n", "/", "b", ".", "w",
        "e", "b", "p">> ]

\* the README's result for the shot pattern, project P-03, image 1
ExpectedShot1 ==
  <<"i", "m", "a", "g", "e", "s", "/", "P", "-", "0", "3", "/", "P", "-", "0",
    "3", "-", "s", "h", "o", "t", "-", "1", ".", "w", "e", "b", "p">>

NoString == << >>       \* undefined / empty string

\* String.prototype.indexOf(pat): 1-based position of the first occurrence, 0 if none
IndexOf(s, pat) ==
  LET hits == {k \in 1..(Len(s) - Len(pat) + 1) : SubSeq(s, k, k + Len(pat) - 1) = pat}
  IN  IF hits = {} THEN 0 ELSE CHOOSE k \in hits : \A j \in hits : k <= j

\* String.prototype.replace(pat, rep) with a string pattern
ReplaceFirst(s, pat, rep) ==
  LET k == IndexOf(s, pat)
  IN  IF k = 0 THEN s
      ELSE SubSeq(s, 1, k - 1) \o rep \o SubSeq(s, k + Len(pat), Len(s))

StartsWith(s, prefix) ==
  Len(s) >= Len(prefix) /\ SubSeq(s, 1, Len(prefix)) = prefix

\* Number.prototype.toString() of a non-negative integer
RECURSIVE NumberToString(_)
NumberToString(n) ==
  LET digits == <<"0", "1", "2", "3", "4", "5", "6", "7", "8", "9">>
  IN  IF n < 10 THEN <<digits[n + 1]>>
      ELSE NumberToString(n \div 10) \o <<digits[(n % 10) + 1]>>

\* s.padStart(2, '0')
PadStart2(s) == IF Len(s) < 2 THEN <<"0">> \o s ELSE s

\* ImageLoader.fixImagePath
FixImagePath(imagePath, isInTemplates) ==
  IF isInTemplates /\ ~StartsWith(imagePath, Str.up) /\ ~StartsWith(imagePath, Str.http)
  THEN Str.up \o imagePath
  ELSE imagePath

\* project.folder || project.id
FolderOrId(project) == IF project.folder # NoString THEN project.folder ELSE project.id

\* generateProjectNameSlug for the ids of its table
GenerateProjectNameSlug(project) == IF project.id = Str.p03 THEN Str.slug03 ELSE Str.slug01

\* the path of image i
ImagePath(project, i) ==
  IF project.namingPattern # NoString
  THEN ReplaceFirst(
         ReplaceFirst(
           ReplaceFirst(
             ReplaceFirst(project.namingPattern, Placeholder.id, project.id),
             Placeholder.i, NumberToString(i)),
           Placeholder.i2, PadStart2(NumberToString(i))),
         Placeholder.folder, FolderOrId(project))
  ELSE Str.images \o FolderOrId(project) \o <<"/">> \o GenerateProjectNameSlug(project)
         \o NumberToString(i) \o Str.webp

\* getGalleryImagePaths without the slice(0, totalImages) of the manual list
GetGalleryImagePathsUnlimited(project, isInTemplates) ==
  LET FixAll(paths) == [k \in 1..Len(paths) |-> FixImagePath(paths[k], isInTemplates)]
  IN  IF Len(project.galleryImages) > 0
      THEN FixAll(project.galleryImages)
      ELSE IF project.totalImages > 0
      THEN [i \in 1..project.totalImages |->
              FixImagePath(ImagePath(project, i), isInTemplates)]
      ELSE FixAll(project.templateImages)

\* ImageLoader.getGalleryImagePaths(project)
GetGalleryImagePaths(project, isInTemplates) ==
  LET FixAll(paths) == [k \in 1..Len(paths) |-> FixImagePath(paths[k], isInTemplates)]
  IN  IF Len(project.galleryImages) > 0
      THEN IF project.totalImages > 0
           THEN SubSeq(FixAll(project.galleryImages), 1,
                       Min(project.totalImages, Len(project.galleryImages)))
           ELSE FixAll(project.galleryImages)
      ELSE IF project.totalImages > 0
      THEN [i \in 1..project.totalImages |->
              FixImagePath(ImagePath(project, i), isInTemplates)]
      ELSE FixAll(project.templateImages)

\* a caller (initGalleryPage, MobileGallery, MobileSlider) asks for the paths
CallGetGalleryImagePaths ==
  /\ ~pathsReturned
  /\ galleryPaths' = GetGalleryImagePaths(pathProject, inTemplates)
  /\ pathsReturned' = TRUE
  /\ UNCHANGED <<pathProject, inTemplates>>
  /\ UNCHANGED exceptPaths

PathsInit ==
  /\ pathProject \in [id : {Str.p03, Str.p01},
                       folder : {NoString, Str.folder},
                       namingPattern : NamingPatterns \cup {NoString},
                       totalImages : 0..MaxPathImages,
                       galleryImages : {<< >>, <<Str.listedA, Str.listedB>>},
                       templateImages : {<< >>, <<Str.listedA>>}]
  /\ inTemplates \in BOOLEAN
  /\ galleryPaths = << >>
  /\ pathsReturned = FALSE

PathsOff ==
  /\ pathProject = [id |-> NoString, folder |-> NoString, namingPattern |-> NoString,
                    totalImages |-> 0, galleryImages |-> << >>, templateImages |-> << >>]
  /\ inTemplates = FALSE
  /\ galleryPaths = << >>
  /\ pathsReturned = FALSE

(***************************************************************************)
(* Gallery.createGalleryItems: loading of the gallery images                *)
(* The images are interchangeable, so they are kept as a bag of records.    *)
(***************************************************************************)
\* imagePaths.length of the galleries explored: thresholds 0.2, 1.2, 2 and 5
GalleryTotals == {1, 6, 10, 26}

\* images that are followed through their loading; the others stay lazy
\* (with IntersectionObserver) or pending (without)
MaxTracked == 6

LoadedCap == 5

\* loadedCount >= Math.min(5, totalImages * 0.2)
ReachesThreshold(loadedCount, totalImages) ==
  loadedCount >= LoadedCap \/ 5 * loadedCount >= totalImages

\* an <img> as createGalleryItems leaves it
NewImage ==
  [stage |-> "lazy",            \* lazy -> intersected -> fetching -> fired -> settled
   event |-> "none",            \* the event the request ended with: load or error
   classes |-> {"gallery-image", "loading"},
   hidden |-> FALSE,            \* galleryItem.style.display = 'none'
   src |-> FALSE,               \* img.src has been set
   cached |-> FALSE]            \* the path is in ImageLoader's loadedImages

\* the animation frame callback of the lazy loader: img.src = img.dataset.src
SetSrc(st, r) ==
  [st EXCEPT !.images = @ (+) SetToBag({[r EXCEPT !.stage = "fetching", !.src = TRUE]})]

\* the animation frame callback of the image's load listener
RunLoadHandler(st, r) ==
  [st EXCEPT
     !.images = @ (+) SetToBag({[r EXCEPT !.stage = "settled",
                                          !.classes = (@ \ {"loading"}) \cup {"loaded"}]}),
     !.loadedCount = @ + 1,
     !.removal = @ \/ ReachesThreshold(st.loadedCount + 1, st.totalImages)]

\* the animation frame callback of the image's error listener
RunErrorHandlerUncounted(st, r) ==
  [st EXCEPT
     !.images = @ (+) SetToBag({[r EXCEPT !.stage = "settled",
                                          !.classes = (@ \ {"loading"}) \cup {"error"},
                                          !.hidden = TRUE]})]
RunErrorHandler(st, r) ==
  [st EXCEPT
     !.images = @ (+) SetToBag({[r EXCEPT !.stage = "settled",
                                          !.classes = (@ \ {"loading"}) \cup {"error"},
                                          !.hidden = TRUE]}),
     !.loadedCount = @ + 1,
     !.removal = @ \/ ReachesThreshold(st.loadedCount + 1, st.totalImages)]

HasCallback(r) == r.stage \in {"intersected", "fired"}

RunCallback(st, r) ==
  IF r.stage = "intersected" THEN SetSrc(st, r)
  ELSE IF r.event = "load" THEN RunLoadHandler(st, r)
  ELSE RunErrorHandler(st, r)

\* the callbacks of one animation frame, run one after the other
RECURSIVE RunFrame(_, _)
RunFrame(st, pending) ==
  IF pending = EmptyBag THEN st
  ELSE LET r == CHOOSE r \in DOMAIN pending : TRUE
       IN  RunFrame(RunCallback(st, r), pending (-) SetToBag({r}))

\* the images of bag B that are in the set D
Restrict(B, D) == [r \in (DOMAIN B) \cap D |-> B[r]]

\* images that have come into view, and images whose request has ended
Started(B) == BagCardinality(Restrict(B, {r \in DOMAIN B : r.stage # "lazy"}))
Ended(B) ==
  BagCardinality(Restrict(B, {r \in DOMAIN B : r.stage \in {"fired", "settled"}}))

\* an animation frame: every callback requested since the last frame runs
Frame ==
  /\ \/ giSetupPc = "frame"
     \/ giRemovalPending
     \/ \E r \in DOMAIN giImages : HasCallback(r)
  /\ LET st == RunFrame([images |-> Restrict(giImages,
                                             {r \in DOMAIN giImages : ~HasCallback(r)}),
                         loadedCount |-> giLoadedCount,
                         totalImages |-> giTotal,
                         removal |-> FALSE],
                        Restrict(giImages, {r \in DOMAIN giImages : HasCallback(r)}))
     IN  /\ giImages' = st.images
         /\ giLoadedCount' = st.loadedCount
         /\ giRemovalPending' = st.removal
  /\ giContainerLoading' = IF giRemovalPending THEN FALSE ELSE giContainerLoading
  /\ giSetupPc' = IF giSetupPc = "frame" THEN "timer100" ELSE giSetupPc
  /\ UNCHANGED <<giTotal, giObserver>>
  /\ UNCHANGED exceptItems

\* ImageLoader.loadImagesImmediately on one image
LoadImmediately(r) ==
  [r EXCEPT !.stage = IF r.src THEN @ ELSE "fetching",
            !.src = TRUE,
            !.classes = @ \cup {"loaded"},
            !.cached = TRUE]

\* the 100 ms callback of createGalleryItems: ImageLoader.lazyLoadImages, which
\* observes the images, or loads them all at once without IntersectionObserver
LazyLoadTimer ==
  /\ giSetupPc = "timer100"
  /\ giSetupPc' = "timer1500"
  /\ giImages' =
       IF giObserver THEN giImages
       ELSE [x \in {LoadImmediately(r) : r \in DOMAIN giImages} |->
               BagCardinality(Restrict(giImages,
                 {r \in DOMAIN giImages : LoadImmediately(r) = x}))]
  /\ UNCHANGED <<giTotal, giObserver, giLoadedCount, giContainerLoading,
                 giRemovalPending>>
  /\ UNCHANGED exceptItems

\* the 1500 ms callback: the loading state is removed whatever has loaded
FallbackTimer ==
  /\ giSetupPc = "timer1500"
  /\ giSetupPc' = "done"
  /\ giContainerLoading' = FALSE
  /\ UNCHANGED <<giTotal, giObserver, giImages, giLoadedCount, giRemovalPending>>
  /\ UNCHANGED exceptItems

\* the IntersectionObserver callback for an observed image that comes into view
Intersect ==
  /\ giObserver
  /\ giSetupPc \in {"timer1500", "done"}
  /\ Started(giImages) < MaxTracked
  /\ \E r \in DOMAIN giImages :
       /\ r.stage = "lazy"
       /\ giImages' = (giImages (-) SetToBag({r}))
                        (+) SetToBag({[r EXCEPT !.stage = "intersected",
                                                !.classes = @ \cup {"loaded"},
                                                !.cached = TRUE]})
  /\ UNCHANGED <<giTotal, giObserver, giLoadedCount, giContainerLoading,
                 giRemovalPending, giSetupPc>>
  /\ UNCHANGED exceptItems

\* the request of an image ends: its load or its error event is dispatched
ImageEvent(event) ==
  /\ Ended(giImages) < MaxTracked
  /\ \E r \in DOMAIN giImages :
       /\ r.stage = "fetching"
       /\ giImages' = (giImages (-) SetToBag({r}))
                        (+) SetToBag({[r EXCEPT !.stage = "fired", !.event = event]})
  /\ UNCHANGED <<giTotal, giObserver, giLoadedCount, giContainerLoading,
                 giRemovalPending, giSetupPc>>
  /\ UNCHANGED exceptItems

\* a click on a gallery item that is displayed: the lightbox opens if the
\* image carries class 'loaded'
ClickItem ==
  /\ \E r \in DOMAIN giImages :
       /\ ~r.hidden
       /\ giClicked' = <<r, "loaded" \in r.classes>>
  /\ UNCHANGED itemVars
  /\ UNCHANGED <<loaderVars, lightboxVars, slideshowVars, mobileProjectVars, windowVars,
                 gridVars, pageVars, pathVars, navVars, sliderVars, galleryCounterVars,
                 preloadVars, lateVars>>

\* state after Gallery.init -> createGalleryItems(imagePaths)
ItemsInit ==
  /\ giTotal \in GalleryTotals
  /\ giObserver \in BOOLEAN
  /\ giImages = [r \in {NewImage} |-> giTotal]
  /\ giLoadedCount = 0
  /\ giContainerLoading = TRUE
  /\ giRemovalPending = FALSE
  /\ giSetupPc = "frame"

ItemsOff ==
  /\ giTotal = 0
  /\ giObserver = FALSE
  /\ giImages = EmptyBag
  /\ giLoadedCount = 0
  /\ giContainerLoading = FALSE
  /\ giRemovalPending = FALSE
  /\ giSetupPc = "done"

(***************************************************************************)
(* UnifiedNavigation: click areas, swipe, mouse drag and keyboard on one    *)
(* container                                                                *)
(***************************************************************************)
MaxSetups == 2           \* setupNavigation calls explored
SwipeThreshold == 50     \* settings.swipeThreshold

\* positions of the finger or the mouse: vertical distances of 50 and 51, and
\* a diagonal with the larger part horizontal
SwipePoints == {<<0, 0>>, <<0, 50>>, <<0, 51>>, <<60, 51>>}

\* the swipe decision with >= in place of > on the threshold
SwipeCallbackInclusive(touchData, settings) ==
  LET deltaX == touchData.currentX - touchData.startX
      deltaY == touchData.currentY - touchData.startY
      absDeltaX == Abs(deltaX)
      absDeltaY == Abs(deltaY)
  IN  IF settings.swipeDirection = "vertical"
      THEN IF absDeltaY >= SwipeThreshold /\ absDeltaY > absDeltaX
           THEN (IF deltaY > 0 THEN "onPrev" ELSE "onNext")
           ELSE "none"
      ELSE IF absDeltaX >= SwipeThreshold /\ absDeltaX > absDeltaY
           THEN (IF deltaX > 0 THEN "onPrev" ELSE "onNext")
           ELSE "none"

\* the callback a touchend / mouseup handler invokes for the gesture in
\* touchData: "onPrev", "onNext" or "none"
SwipeCallback(touchData, settings) ==
  LET deltaX == touchData.currentX - touchData.startX
      deltaY == touchData.currentY - touchData.startY
      absDeltaX == Abs(deltaX)
      absDeltaY == Abs(deltaY)
  IN  IF settings.swipeDirection = "vertical"
      THEN IF absDeltaY > SwipeThreshold /\ absDeltaY > absDeltaX
           THEN (IF deltaY > 0 THEN "onPrev" ELSE "onNext")
           ELSE "none"
      ELSE IF absDeltaX > SwipeThreshold /\ absDeltaX > absDeltaY
           THEN (IF deltaX > 0 THEN "onPrev" ELSE "onNext")
           ELSE "none"

\* the calls made by the listeners of one event, in the order the listeners
\* were added: called[r] is the callback registration r invokes, or "none"
Invocations(called) ==
  LET IsCall(e) == e[2] # "none"
  IN  SelectSeq([r \in 1..Len(called) |-> <<r, called[r]>>], IsCall)

\* a setup or a destroy in the middle of a gesture
Interrupted(gesture) ==
  IF gesture.kind = "none" THEN gesture ELSE [gesture EXCEPT !.kind = "impure"]

\* setupNavigation(container, {onPrev, onNext}, options)
SetupNavigation(options) ==
  /\ Len(navRegs) < MaxSetups
  /\ navRegs' = Append(navRegs,
       [settings |-> options,
        click |-> options.enableClick,
        swipe |-> options.enableSwipe,
        keyboard |-> options.enableKeyboard,
        touchData |-> [startX |-> 0, startY |-> 0, currentX |-> 0, currentY |-> 0,
                       isDragging |-> FALSE]])
  /\ navStored' = Len(navRegs) + 1
  /\ navAreas' = (navAreas \/ options.enableClick)
  /\ navGesture' = Interrupted(navGesture)
  /\ navInvoked' = << >>
  /\ navEnded' = "no"
  /\ UNCHANGED navRetired
  /\ UNCHANGED exceptNav

\* the listeners destroyNavigation removes: those of the stored registration,
\* and with its click areas every click listener on them
RemoveListeners(regs, stored) ==
  [r \in 1..Len(regs) |->
     IF r = stored
     THEN [regs[r] EXCEPT !.click = FALSE, !.swipe = FALSE, !.keyboard = FALSE,
                          \* navData is unreachable once its listeners are gone
                          !.touchData = [startX |-> 0, startY |-> 0, currentX |-> 0,
                                         currentY |-> 0, isDragging |-> FALSE]]
     ELSE IF regs[stored].settings.enableClick
     THEN [regs[r] EXCEPT !.click = FALSE]      \* its area left the document
     ELSE regs[r]]

\* destroyNavigation(container), also the destroy() setupNavigation returns
DestroyNavigation ==
  /\ navRetired' = 1..Len(navRegs)
  /\ IF navStored = 0
     THEN UNCHANGED <<navRegs, navAreas, navStored>>
     ELSE /\ navRegs' = RemoveListeners(navRegs, navStored)
          /\ navAreas' = IF navRegs[navStored].settings.enableClick THEN FALSE
                         ELSE navAreas
          /\ navStored' = 0
  /\ navGesture' = Interrupted(navGesture)
  /\ navInvoked' = << >>
  /\ navEnded' = "no"
  /\ UNCHANGED exceptNav

\* a click on the prev or next area
ClickArea(area) ==
  /\ navAreas
  /\ navInvoked' = Invocations([r \in 1..Len(navRegs) |->
                      IF ~navRegs[r].click THEN "none"
                      ELSE IF area = "prev" THEN "onPrev" ELSE "onNext"])
  /\ navEnded' = "no"
  /\ UNCHANGED <<navRegs, navStored, navAreas, navRetired, navGesture>>
  /\ UNCHANGED exceptNav

\* touchstart (one touch at x, y) or mousedown at x, y on the container
PointerDown(kind, x, y) ==
  /\ navRegs' = [r \in 1..Len(navRegs) |->
       IF navRegs[r].swipe
       THEN [navRegs[r] EXCEPT !.touchData =
               [startX |-> x, startY |-> y, currentX |-> x, currentY |-> y,
                isDragging |-> TRUE]]
       ELSE navRegs[r]]
  /\ navGesture' = [kind |-> kind, startX |-> x, startY |-> y, x |-> x, y |-> y]
  /\ navInvoked' = << >>
  /\ navEnded' = "no"
  /\ UNCHANGED <<navStored, navAreas, navRetired>>
  /\ UNCHANGED exceptNav

\* touchmove (one touch at x, y) or mousemove at x, y on the container
PointerMove(kind, x, y) ==
  /\ navRegs' = [r \in 1..Len(navRegs) |->
       IF navRegs[r].swipe /\ navRegs[r].touchData.isDragging
       THEN [navRegs[r] EXCEPT !.touchData.currentX = x, !.touchData.currentY = y]
       ELSE navRegs[r]]
  /\ navGesture' = IF navGesture.kind = kind
                   THEN [navGesture EXCEPT !.x = x, !.y = y]
                   ELSE Interrupted(navGesture)
  /\ navInvoked' = << >>
  /\ navEnded' = "no"
  /\ UNCHANGED <<navStored, navAreas, navRetired>>
  /\ UNCHANGED exceptNav

\* touchend or mouseup on the container
PointerUp(kind) ==
  /\ navInvoked' = Invocations([r \in 1..Len(navRegs) |->
       IF navRegs[r].swipe /\ navRegs[r].touchData.isDragging
       THEN SwipeCallback(navRegs[r].touchData, navRegs[r].settings)
       ELSE "none"])
  /\ navRegs' = [r \in 1..Len(navRegs) |->
       IF navRegs[r].swipe
       THEN [navRegs[r] EXCEPT !.touchData.isDragging = FALSE]
       ELSE navRegs[r]]
  /\ navEnded' = IF kind = "touch" THEN navGesture.kind ELSE "no"
  /\ navGesture' = IF kind = "touch" \/ navGesture.kind = "mouse"
                   THEN [navGesture EXCEPT !.kind = "none"]
                   ELSE Interrupted(navGesture)
  /\ UNCHANGED <<navStored, navAreas, navRetired>>
  /\ UNCHANGED exceptNav

\* keydown on the document; active is isContainerActive(container)
KeyDown(key, active) ==
  /\ navInvoked' = Invocations([r \in 1..Len(navRegs) |->
       IF ~navRegs[r].keyboard \/ ~active THEN "none"
       ELSE IF key \in {"ArrowUp", "ArrowLeft"} THEN "onPrev"
       ELSE IF key \in {"ArrowDown", "ArrowRight"} THEN "onNext"
       ELSE "none"])
  /\ navEnded' = "no"
  /\ UNCHANGED <<navRegs, navStored, navAreas, navRetired, navGesture>>
  /\ UNCHANGED exceptNav

\* a container on which setupNavigation has not been called
NavOff ==
  /\ navRegs = << >>
  /\ navStored = 0
  /\ navAreas = FALSE
  /\ navRetired = {}
  /\ navInvoked = << >>
  /\ navGesture = [kind |-> "none", startX |-> 0, startY |-> 0, x |-> 0, y |-> 0]
  /\ navEnded = "no"

(***************************************************************************)
(* ImageLoader.preloadImages(imagePaths, callback)                          *)
(***************************************************************************)
MaxCalls == 2            \* preloadImages calls with a callback

\* the paths of a list that have an outstanding request
Outstanding(imagePaths, requests) ==
  {imagePaths[k] : k \in 1..Len(imagePaths)} \cap {q.path : q \in requests}

\* preloadImages(imagePaths, callback)
PreloadWithCallback(imagePaths) ==
  /\ Len(pcCalls) < MaxCalls
  /\ LET imagesToLoad == ImagesToLoad(imagePaths, loadedImages)
     IN  /\ pcCalls' = Append(pcCalls,
               [imagePaths |-> imagePaths,
                toLoad |-> Len(imagesToLoad),
                loadedCount |-> 0,
                called |-> (Len(imagesToLoad) = 0),
                outstanding |-> IF Len(imagesToLoad) = 0
                                THEN Outstanding(imagePaths, pcRequests) ELSE {}])
         /\ pcRequests' = pcRequests \cup
               {[call |-> Len(pcCalls) + 1, k |-> k, path |-> imagesToLoad[k]] :
                  k \in 1..Len(imagesToLoad)}
  /\ requested' = RequestedAfterPreload(imagePaths, loadedImages, requested)
  /\ loadedImages' = CacheAfterPreload(imagePaths, loadedImages)
  /\ UNCHANGED exceptPreload

\* img.onload or img.onerror of one request: imageLoaded()
ImageLoaded ==
  /\ \E q \in pcRequests :
       /\ pcRequests' = pcRequests \ {q}
       /\ pcCalls' = [pcCalls EXCEPT ![q.call] =
            IF @.loadedCount + 1 = @.toLoad
            THEN [@ EXCEPT !.loadedCount = @ + 1,
                           !.called = TRUE,
                           !.outstanding = Outstanding(pcCalls[q.call].imagePaths,
                                                       pcRequests \ {q})]
            ELSE [@ EXCEPT !.loadedCount = @ + 1]]
  /\ UNCHANGED <<loaderVars, exceptPreload>>

\* an empty cache and no call made yet; the paths are 0..MaxImages-1
PreloadInit ==
  /\ pcCalls = << >>
  /\ pcRequests = {}
  /\ loadedImages = {}
  /\ requested = [u \in 0..(MaxImages - 1) |-> 0]

(***************************************************************************)
(* MobileSlider                                                             *)
(***************************************************************************)
MobileSliderLockMs == 300

\* updateSlidePositions(), called after currentSlideIndex has been written
UpdateSlidePositions ==
  IF msIsTransitioning
  THEN UNCHANGED <<msIsTransitioning, msCurrent, msTimers>>
  ELSE /\ msIsTransitioning' = TRUE
       /\ msCurrent' = {index \in 0..(msSlides - 1) : index = msCurrentSlideIndex'}
       /\ msTimers' = Append(msTimers, MobileSliderLockMs)

\* updateUIContent(), called after currentSlideIndex has been written
UpdateUIContent ==
  msShown' = IF msCurrentSlideIndex' \in 0..(msSlides - 1)
             THEN msCurrentSlideIndex' ELSE msShown

GoToNextSlide ==
  /\ IF msCurrentSlideIndex < msSlides - 1
     THEN /\ msCurrentSlideIndex' = msCurrentSlideIndex + 1
          /\ UpdateSlidePositions
          /\ UpdateUIContent
     ELSE UNCHANGED <<msCurrentSlideIndex, msIsTransitioning, msCurrent, msShown,
                      msTimers>>
  /\ UNCHANGED msSlides
  /\ UNCHANGED exceptSlider

GoToPrevSlide ==
  /\ IF msCurrentSlideIndex > 0
     THEN /\ msCurrentSlideIndex' = msCurrentSlideIndex - 1
          /\ UpdateSlidePositions
          /\ UpdateUIContent
     ELSE UNCHANGED <<msCurrentSlideIndex, msIsTransitioning, msCurrent, msShown,
                      msTimers>>
  /\ UNCHANGED msSlides
  /\ UNCHANGED exceptSlider

\* the callback of updateSlidePositions' setTimeout
MobileSliderTimer ==
  /\ Len(msTimers) > 0
  /\ msTimers[1] = 0
  /\ msIsTransitioning' = FALSE
  /\ msTimers' = Tail(msTimers)
  /\ UNCHANGED <<msSlides, msCurrentSlideIndex, msCurrent, msShown>>
  /\ UNCHANGED exceptSlider

\* state after MobileSlider.init(projectsData) at mobile width: createSlides,
\* then updateSlidePositions and updateUIContent for index 0
MobileSliderInit ==
  /\ msSlides \in 0..MaxSlides
  /\ msCurrentSlideIndex = 0
  /\ msIsTransitioning = TRUE
  /\ msCurrent = {index \in 0..(msSlides - 1) : index = 0}
  /\ msShown = IF msSlides > 0 THEN 0 ELSE None
  /\ msTimers = <<MobileSliderLockMs>>

MobileSliderOff ==
  /\ msSlides = 0
  /\ msCurrentSlideIndex = 0
  /\ msIsTransitioning = FALSE
  /\ msCurrent = {}
  /\ msShown = None
  /\ msTimers = << >>

(***************************************************************************)
(* MobileGallery: the mobile counter that mirrors the lightbox              *)
(* The images are numbered 0..N-1 and have pairwise distinct file names;    *)
(* the preloading done by the lightbox is modelled with the Gallery above.  *)
(***************************************************************************)
MaxPending == 2          \* 50 ms timeouts pending at once

\* updateCounterFromLightbox(): the text the mobile counter has afterwards
UpdateCounterFromLightbox(projectCounterText, src, counter, total) ==
  IF projectCounterText # << >> /\ projectCounterText # <<total, total>>
  THEN projectCounterText
  ELSE IF src # None
  THEN <<src + 1, total>>      \* findIndex by file name
  ELSE counter

\* Gallery.updateProjectCellCounter / resetProjectCellCounter: the text of the
\* project counter afterwards, if the element exists
ProjectCellCounter(shown) ==
  IF mgProjectCounter = << >> THEN << >> ELSE <<shown, mgImages>>

\* the microtasks run after a handler that changed the image: the observer
\* of the project counter mirrors the new text
CounterObserverCallback ==
  mgCounter' = IF mgCounterObserver /\ mgProjectCounter' # << >>
               THEN UpdateCounterFromLightbox(mgProjectCounter', mgSrc', mgCounter,
                                              mgImages)
               ELSE mgCounter

\* a click on a gallery item whose image is loaded: openLightbox(index), then
\* the lightbox observer's callback for the class change
MgOpenLightbox(index) ==
  /\ ~mgActive
  /\ mgLastOp' = "openLightbox"
  /\ IF index < 0 \/ index >= mgImages
     THEN UNCHANGED <<mgActive, mgIndex, mgSrc, mgProjectCounter, mgCounter,
                      mgListening, mgCounterObserver>>
     ELSE /\ mgIndex' = index
          /\ mgSrc' = index
          /\ mgProjectCounter' = ProjectCellCounter(index + 1)
          /\ mgActive' = TRUE
          /\ IF mgObserving
             THEN \* startLightboxCounterMonitoring, addLightboxNavigationListeners
                  /\ mgCounter' =
                       IF mgProjectCounter' # << >>
                       THEN UpdateCounterFromLightbox(mgProjectCounter', index,
                                                      mgCounter, mgImages)
                       ELSE mgCounter
                  /\ mgCounterObserver' = (mgProjectCounter' # << >>)
                  /\ mgListening' = TRUE
             ELSE UNCHANGED <<mgCounter, mgCounterObserver, mgListening>>
  /\ UNCHANGED <<mgImages, mgObserving, mgPoll, mgPending>>
  /\ UNCHANGED exceptGalleryCounter

\* Gallery.closeLightbox(), then the lightbox observer's callback:
\* resetToGridCounter, removeLightboxNavigationListeners
MgCloseLightbox ==
  /\ mgActive' = FALSE
  /\ mgProjectCounter' = ProjectCellCounter(mgImages)
  /\ IF mgObserving
     THEN /\ mgCounterObserver' = FALSE
          /\ mgCounter' = <<mgImages, mgImages>>
          /\ mgListening' = FALSE
     ELSE /\ CounterObserverCallback
          /\ UNCHANGED <<mgCounterObserver, mgListening>>
  /\ UNCHANGED <<mgIndex, mgSrc>>

\* Gallery.prevImage / nextImage with updateLightboxImage
MgShowImage(index) ==
  /\ mgIndex' = index
  /\ mgSrc' = index
  /\ mgProjectCounter' = ProjectCellCounter(index + 1)
  /\ CounterObserverCallback
  /\ UNCHANGED <<mgActive, mgListening, mgCounterObserver>>

\* a click on a navigation area of the lightbox: Gallery's listener, then
\* handleLightboxClickNavigation if it is added
MgNavClick(area) ==
  /\ mgActive
  /\ mgPending < MaxPending
  /\ mgLastOp' = "click"
  /\ MgShowImage(IF area = "prev" THEN PrevIndex(mgIndex, mgImages)
                 ELSE NextIndex(mgIndex, mgImages))
  /\ mgPending' = IF mgListening THEN mgPending + 1 ELSE mgPending
  /\ UNCHANGED <<mgImages, mgObserving, mgPoll>>
  /\ UNCHANGED exceptGalleryCounter

\* keydown: Gallery.handleKeyPress, then handleLightboxKeyNavigation if added
MgKeyDown(key) ==
  /\ mgPending < MaxPending
  /\ mgLastOp' = "keydown"
  /\ IF ~mgActive \/ key \notin {"Escape", "ArrowLeft", "ArrowRight"}
     THEN UNCHANGED <<mgActive, mgIndex, mgSrc, mgProjectCounter, mgCounter,
                      mgListening, mgCounterObserver, mgPending>>
     ELSE IF key = "Escape"
     THEN MgCloseLightbox /\ UNCHANGED mgPending
     ELSE /\ MgShowImage(IF key = "ArrowLeft" THEN PrevIndex(mgIndex, mgImages)
                         ELSE NextIndex(mgIndex, mgImages))
          /\ mgPending' = IF mgListening THEN mgPending + 1 ELSE mgPending
  /\ UNCHANGED <<mgImages, mgObserving, mgPoll>>
  /\ UNCHANGED exceptGalleryCounter

\* the callback of a 50 ms timeout: updateCounterFromLightbox()
MgUpdateTimer ==
  /\ mgPending > 0
  /\ mgPending' = mgPending - 1
  /\ mgLastOp' = "timeout"
  /\ mgCounter' = UpdateCounterFromLightbox(mgProjectCounter, mgSrc, mgCounter, mgImages)
  /\ UNCHANGED <<mgImages, mgActive, mgIndex, mgSrc, mgProjectCounter, mgObserving,
                 mgPoll, mgListening, mgCounterObserver>>
  /\ UNCHANGED exceptGalleryCounter

\* the callback of checkForLightbox's 100 ms timeout, the lightbox existing
MgCheckForLightbox ==
  /\ mgPoll
  /\ mgPoll' = FALSE
  /\ mgObserving' = TRUE
  /\ mgLastOp' = "checkForLightbox"
  /\ UNCHANGED <<mgImages, mgActive, mgIndex, mgSrc, mgProjectCounter, mgCounter,
                 mgListening, mgCounterObserver, mgPending>>
  /\ UNCHANGED exceptGalleryCounter

\* MobileGallery.destroy(), called by handleGalleryResize when the window has
\* become wider than 768: removeLightboxNavigationListeners and the disconnect
\* of the counter observer; the lightbox observer, the checkForLightbox
\* timeout and the 50 ms timeouts are left as they are
MgDestroy ==
  /\ ~mgDestroyed
  /\ mgDestroyed' = TRUE
  /\ mgListening' = FALSE
  /\ mgCounterObserver' = FALSE
  /\ mgLastOp' = "destroy"
  /\ UNCHANGED <<mgImages, mgActive, mgIndex, mgSrc, mgProjectCounter, mgCounter,
                 mgObserving, mgPoll, mgPending>>
  /\ UNCHANGED exceptGalleryDestroy

\* state after MobileGallery.init(project) and Gallery.init with N >= 1 images.
\* On a page initialised at mobile width initGalleryPage renders no static
\* grid, so there is no .project-slideshow-counter, and MobileGallery.init
\* ran before the lightbox was created: checkForLightbox is polling.  On a
\* page initialised at desktop width and resized, both elements exist.
MobileGalleryInit ==
  /\ mgImages \in 1..MaxImages
  /\ mgActive = FALSE
  /\ mgIndex = 0
  /\ mgSrc = None
  /\ \/ mgProjectCounter = << >> /\ mgObserving = FALSE /\ mgPoll = TRUE
     \/ mgProjectCounter = <<mgImages, mgImages>> /\ mgObserving = TRUE /\ mgPoll = FALSE
  /\ mgCounter = <<mgImages, mgImages>>
  /\ mgListening = FALSE
  /\ mgCounterObserver = FALSE
  /\ mgPending = 0
  /\ mgLastOp = "init"

MobileGalleryOff ==
  /\ mgImages = 0
  /\ mgActive = FALSE
  /\ mgIndex = 0
  /\ mgSrc = None
  /\ mgProjectCounter = << >>
  /\ mgObserving = FALSE
  /\ mgPoll = FALSE
  /\ mgCounter = <<0, 0>>
  /\ mgListening = FALSE
  /\ mgCounterObserver = FALSE
  /\ mgPending = 0
  /\ mgLastOp = "none"

(***************************************************************************)
(* GridLayout.calculateGridDimensions (3-row preference version) called on  *)
(* its own, as the public API allows                                        *)
(***************************************************************************)
MaxDimItems == 21       \* totalItems explored: 1..MaxDimItems

\* window.innerWidth x window.innerHeight of the windows explored here
DimViewports == {<<375, 667>>, <<768, 1024>>, <<1024, 768>>,
                 <<1366, 768>>, <<1440, 900>>, <<1800, 892>>}

\* GridLayout.calculateGridDimensions(totalItems)
CallCalculateGridDimensions ==
  /\ cgConfig = NoConfig
  /\ cgConfig' = CalculateGridDimensions(cgTotalItems, cgWidth, cgHeight)
  /\ UNCHANGED <<cgTotalItems, cgWidth, cgHeight>>
  /\ UNCHANGED exceptDims

DimsInit ==
  /\ cgTotalItems \in 1..MaxDimItems
  /\ \E vp \in DimViewports : cgWidth = vp[1] /\ cgHeight = vp[2]
  /\ cgConfig = NoConfig

DimsOff ==
  /\ cgTotalItems = 0
  /\ cgWidth = 0
  /\ cgHeight = 0
  /\ cgConfig = NoConfig

LateOff == DimsOff /\ mgDestroyed = FALSE

RestOff == NavOff /\ MobileSliderOff /\ MobileGalleryOff /\ giClicked = << >> /\ pcCalls = << >> /\ pcRequests = {} /\ LateOff


(***************************************************************************)
(* Passage of time                                                          *)
(***************************************************************************)
PendingTimers ==
  ssTimers \o mpTimers \o msTimers \o [k \in 1..Len(gridTimers) |-> gridTimers[k].rem]

\* time passes until the next expiry at the latest; an expired callback runs
\* before any more time passes
Tick ==
  /\ Len(PendingTimers) > 0
  /\ SeqMin(PendingTimers) > 0
  /\ LET d == Min(Quantum, SeqMin(PendingTimers))
     IN  /\ ssTimers' = Elapse(ssTimers, d)
         /\ mpTimers' = Elapse(mpTimers, d)
         /\ msTimers' = Elapse(msTimers, d)
         /\ gridTimers' = [k \in 1..Len(gridTimers) |->
                             [gridTimers[k] EXCEPT !.rem = @ - d]]
         /\ sinceResize' = IF sinceResize = None THEN None
                            ELSE Min(ResizeDebounceMs, sinceResize + d)
  /\ UNCHANGED <<ssSlides, ssCurrentIndex, ssIsTransitioning, ssActive, ssCounter,
                 ssLastOp>>
  /\ UNCHANGED <<mpSlides, mpCurrentSlideIndex, mpIsTransitioning, mpActive,
                 mpCounter, mpLastOp>>
  /\ UNCHANGED <<innerWidth, innerHeight, nProjects, projectsData, gridCols, gridRows,
                 contactCell, itemPos, dims, resizeTimeout,
                 burstApplied, burstEvents, written>>
  /\ UNCHANGED <<msSlides, msCurrentSlideIndex, msIsTransitioning, msCurrent, msShown>>
  /\ UNCHANGED <<loaderVars, lightboxVars, pageVars, pathVars, itemVars, navVars,
                 galleryCounterVars, giClicked, preloadVars, lateVars>>

(***************************************************************************)
(* Specifications                                                           *)
(***************************************************************************)
LightboxNext ==
  \/ \E index \in (0 - 2)..(MaxImages + 1) : OpenLightbox(index)
  \/ CloseLightbox
  \/ PrevImage
  \/ NextImage
  \/ \E key \in LightboxKeys : HandleKeyPress(key)
  \/ \E imagePaths \in PathLists : PreloadImages(imagePaths)
  \/ ClearCache

InitLightbox ==
  LightboxInit /\ SlideshowOff /\ MobileProjectOff /\ WindowOff /\ GridOff /\ PageOff
    /\ PathsOff /\ ItemsOff /\ RestOff

SpecLightbox == InitLightbox /\ [][LightboxNext]_vars

SlidesNext ==
  \/ \E index \in (0 - 2)..(MaxSlides + 1) : ShowSlide(index)
  \/ Prev
  \/ Next
  \/ SlideshowTimer
  \/ PrevSlide
  \/ NextSlide
  \/ MobileProjectTimer
  \/ Tick

InitSlides ==
  SlideshowInit /\ MobileProjectInit /\ LightboxOff /\ WindowOff /\ GridOff /\ PageOff
    /\ PathsOff /\ ItemsOff /\ RestOff

SpecSlides == InitSlides /\ [][SlidesNext]_vars

GridNext ==
  \/ ApplyLayout
  \/ \E vp \in Viewports : Resize(vp[1], vp[2])
  \/ ResizeTimer
  \/ Tick

InitGrid ==
  GridInit /\ LoaderOff /\ LightboxOff /\ SlideshowOff /\ MobileProjectOff /\ PageOff
    /\ PathsOff /\ ItemsOff /\ RestOff

SpecGrid == InitGrid /\ [][GridNext]_vars

PageNext ==
  \/ InitProjectPage
  \/ InitGalleryPage
  \/ GalleryPageFrame
  \/ GalleryVisible
  \/ \E vp \in Viewports : PageResize(vp[1], vp[2])

InitPage ==
  PageInit /\ WindowInit /\ GridOff /\ LoaderOff /\ LightboxOff /\ SlideshowOff
    /\ MobileProjectOff /\ PathsOff /\ ItemsOff /\ RestOff

SpecPage == InitPage /\ [][PageNext]_vars

InitPaths ==
  PathsInit /\ WindowOff /\ GridOff /\ PageOff /\ LoaderOff /\ LightboxOff /\ SlideshowOff
    /\ MobileProjectOff /\ ItemsOff /\ RestOff

SpecPaths == InitPaths /\ [][CallGetGalleryImagePaths]_vars

ItemsNext ==
  \/ Frame
  \/ LazyLoadTimer
  \/ FallbackTimer
  \/ Intersect
  \/ \E event \in {"load", "error"} : ImageEvent(event)
  \/ ClickItem

InitItems ==
  ItemsInit /\ WindowOff /\ GridOff /\ PageOff /\ PathsOff /\ LoaderOff /\ LightboxOff
    /\ SlideshowOff /\ MobileProjectOff /\ RestOff

SpecItems == InitItems /\ [][ItemsNext]_vars

NavNext ==
  \/ \E options \in
       {[enableSwipe |-> TRUE, enableClick |-> TRUE, enableKeyboard |-> TRUE,
         swipeDirection |-> "vertical"],
        [enableSwipe |-> TRUE, enableClick |-> FALSE, enableKeyboard |-> FALSE,
         swipeDirection |-> "vertical"],
        [enableSwipe |-> TRUE, enableClick |-> TRUE, enableKeyboard |-> TRUE,
         swipeDirection |-> "horizontal"]} : SetupNavigation(options)
  \/ DestroyNavigation
  \/ \E area \in {"prev", "next"} : ClickArea(area)
  \/ \E kind \in {"touch", "mouse"}, p \in SwipePoints :
       PointerDown(kind, p[1], p[2])
  \/ \E kind \in {"touch", "mouse"}, p \in SwipePoints :
       PointerMove(kind, p[1], p[2])
  \/ \E kind \in {"touch", "mouse"} : PointerUp(kind)
  \/ \E key \in {"ArrowUp", "ArrowDown", "ArrowLeft", "ArrowRight", "Enter"},
        active \in BOOLEAN : KeyDown(key, active)

InitNav ==
  NavOff /\ WindowOff /\ GridOff /\ PageOff /\ PathsOff /\ LoaderOff /\ LightboxOff
    /\ SlideshowOff /\ MobileProjectOff /\ ItemsOff /\ MobileSliderOff /\ MobileGalleryOff
    /\ giClicked = << >> /\ pcCalls = << >> /\ pcRequests = {} /\ LateOff

SpecNav == InitNav /\ [][NavNext]_vars

SliderNext ==
  \/ GoToNextSlide
  \/ GoToPrevSlide
  \/ MobileSliderTimer
  \/ Tick

InitSlider ==
  MobileSliderInit /\ NavOff /\ WindowOff /\ GridOff /\ PageOff /\ PathsOff /\ LoaderOff
    /\ LightboxOff /\ SlideshowOff /\ MobileProjectOff /\ ItemsOff /\ MobileGalleryOff
    /\ giClicked = << >> /\ pcCalls = << >> /\ pcRequests = {} /\ LateOff

SpecSlider == InitSlider /\ [][SliderNext]_vars

GalleryCounterNext ==
  \/ \E index \in (0 - 1)..MaxImages : MgOpenLightbox(index)
  \/ \E area \in {"prev", "next"} : MgNavClick(area)
  \/ \E key \in LightboxKeys : MgKeyDown(key)
  \/ MgUpdateTimer
  \/ MgCheckForLightbox

InitGalleryCounter ==
  MobileGalleryInit /\ NavOff /\ MobileSliderOff /\ WindowOff /\ GridOff /\ PageOff
    /\ PathsOff /\ LoaderOff /\ LightboxOff /\ SlideshowOff /\ MobileProjectOff
    /\ ItemsOff /\ giClicked = << >> /\ pcCalls = << >> /\ pcRequests = {} /\ LateOff

SpecGalleryCounter == InitGalleryCounter /\ [][GalleryCounterNext]_vars

PreloadNext ==
  \/ \E imagePaths \in UNION {[1..k -> 0..(MaxImages - 1)] : k \in 1..MaxPreloadLen} :
       PreloadWithCallback(imagePaths)
  \/ ImageLoaded

InitPreload ==
  PreloadInit /\ LightboxOff /\ NavOff /\ MobileSliderOff /\ MobileGalleryOff /\ WindowOff
    /\ GridOff /\ PageOff /\ PathsOff /\ SlideshowOff /\ MobileProjectOff /\ ItemsOff
    /\ giClicked = << >> /\ LateOff

SpecPreload == InitPreload /\ [][PreloadNext]_vars

GalleryDestroyNext ==
  \/ \E index \in (0 - 1)..MaxImages : MgOpenLightbox(index)
  \/ \E area \in {"prev", "next"} : MgNavClick(area)
  \/ \E key \in LightboxKeys : MgKeyDown(key)
  \/ MgUpdateTimer
  \/ MgCheckForLightbox
  \/ MgDestroy

InitGalleryDestroy ==
  MobileGalleryInit /\ NavOff /\ MobileSliderOff /\ WindowOff /\ GridOff /\ PageOff
    /\ PathsOff /\ LoaderOff /\ LightboxOff /\ SlideshowOff /\ MobileProjectOff
    /\ ItemsOff /\ giClicked = << >> /\ pcCalls = << >> /\ pcRequests = {} /\ DimsOff
    /\ mgDestroyed = FALSE

SpecGalleryDestroy == InitGalleryDestroy /\ [][GalleryDestroyNext]_vars

InitDims ==
  DimsInit /\ LoaderOff /\ LightboxOff /\ SlideshowOff /\ MobileProjectOff /\ WindowOff
    /\ GridOff /\ PageOff /\ PathsOff /\ ItemsOff /\ NavOff /\ MobileSliderOff
    /\ MobileGalleryOff /\ giClicked = << >> /\ pcCalls = << >> /\ pcRequests = {}
    /\ mgDestroyed = FALSE

SpecDims == InitDims /\ [][CallCalculateGridDimensions]_vars

----------------------------------------------------------------------------
(***************************************************************************)
(* Claims                                                                   *)
(***************************************************************************)

\* C1: with n >= 1 images, after any sequence of openLightbox(k), nextImage and
\* prevImage the index stays in 0..n-1; nextImage takes index i to (i+1) mod n,
\* prevImage takes i to (i-1) mod n, and an out-of-range openLightbox(k) leaves
\* the index where it was.
C1_IndexWraps ==
  /\ currentImageIndex \in 0..(galleryImages - 1)
  /\ lastOp.op = "nextImage" =>
        currentImageIndex = (lastOp.from + 1) % galleryImages
  /\ lastOp.op = "prevImage" =>
        currentImageIndex = (lastOp.from - 1) % galleryImages
  /\ lastOp.op = "openLightbox" =>
        currentImageIndex = IF lastOp.arg \in 0..(galleryImages - 1)
                            THEN lastOp.arg ELSE lastOp.from

\* C1 witness: prevImage has just wrapped from the first image to the last of
\* a gallery of at least two images
C1_Witness ==
  /\ galleryImages >= 2
  /\ lastOp.op = "prevImage"
  /\ lastOp.from = 0
  /\ currentImageIndex = galleryImages - 1

\* C2: in Slideshow and in MobileProject, while the transition lock stays held
\* (from an accepted showSlide until its 300 ms timer fires) no call changes the
\* current index, the slide carrying 'active' or the counter text, and no second
\* timer is started.
C2_LockIgnoresCalls ==
  [][ /\ (ssIsTransitioning /\ ssIsTransitioning') =>
           /\ UNCHANGED <<ssCurrentIndex, ssActive, ssCounter>>
           /\ Len(ssTimers') = Len(ssTimers)
           /\ Len(ssTimers') <= 1
      /\ (mpIsTransitioning /\ mpIsTransitioning') =>
           /\ UNCHANGED <<mpCurrentSlideIndex, mpActive, mpCounter>>
           /\ Len(mpTimers') = Len(mpTimers)
           /\ Len(mpTimers') = 1 ]_vars

\* C2 witness: both slideshows hold the lock with a timer still running and the
\* last call made to each (a next that would have moved to another slide)
\* arrived while the lock was held
C2_Witness ==
  /\ ssIsTransitioning /\ Len(ssTimers) = 1 /\ ssTimers[1] > 0
  /\ ssLastOp.op = "next" /\ ssLastOp.locked /\ ssSlides >= 2
  /\ mpIsTransitioning /\ Len(mpTimers) = 1 /\ mpTimers[1] > 0
  /\ mpLastOp.op = "nextSlide" /\ mpLastOp.locked /\ mpSlides >= 2

\* C6: without an intervening clearCache every image url is requested (a new
\* Image created for it) at most once, duplicates inside one imagePaths list
\* included.
C6_RequestedAtMostOnce ==
  \A u \in DOMAIN requested : requested[u] <= 1

\* C3 (as stated): for every viewport and every totalItems >= 1,
\* calculateGridDimensions(totalItems) returns non-negative integers cols and
\* rows with cols * rows >= totalItems + 1.
C3_CellsExceedItems ==
  dims.totalItems >= 1 =>
    /\ dims.cols \in Nat /\ dims.rows \in Nat
    /\ dims.cols * dims.rows >= dims.totalItems + 1

\* C3 (amended): for every viewport and every totalItems >= 1,
\* calculateGridDimensions(totalItems) returns non-negative integers cols and
\* rows with cols * rows >= totalItems, and cols * rows >= totalItems + 1 when
\* the window is at most 768 px wide.
C3_CellsHoldItems ==
  dims.totalItems >= 1 =>
    /\ dims.cols \in Nat /\ dims.rows \in Nat
    /\ dims.cols * dims.rows >= dims.totalItems
    /\ IsMobile(dims.width) => dims.cols * dims.rows >= dims.totalItems + 1

\* a desktop call whose grid has exactly totalItems cells
C3_Witness ==
  /\ dims.totalItems >= 1
  /\ ~IsMobile(dims.width)
  /\ dims.cols * dims.rows = dims.totalItems

\* C7: while resize events keep arriving less than 100 ms apart the resize
\* handler holds at most one pending timer and its callback does not call
\* applyLayout; the callback runs only once 100 ms have passed since the last
\* resize event, and then calls applyLayout exactly once for the burst when
\* projectsData is non-empty (and not at all when it is empty).
C7_ResizeDebounced ==
  /\ [](/\ Len(gridTimers) <= 1
        /\ burstApplied <= 1
        /\ burstApplied > 0 => sinceResize = ResizeDebounceMs
        /\ (sinceResize # None /\ sinceResize < ResizeDebounceMs) =>
              /\ Len(gridTimers) = 1
              /\ gridTimers[1].id = resizeTimeout
              /\ gridTimers[1].rem = ResizeDebounceMs - sinceResize)
  /\ [][ Len(gridTimers') < Len(gridTimers) =>
            /\ sinceResize = ResizeDebounceMs
            /\ burstApplied = 0
            /\ burstApplied' = IF projectsData > 0 THEN 1 ELSE 0 ]_vars

\* a burst of several resize events has ended with one applyLayout call
C7_Witness ==
  /\ burstEvents >= 2
  /\ gridTimers = << >>
  /\ burstApplied = 1

CoversColumn(pos, col) == pos.col <= col /\ col < pos.end

\* C8: whenever applyLayout has written grid positions, the contact cell is in
\* the last row starting at column 1, every project item has a cell inside
\* the grid, no two project items share a cell, and no project item is in a
\* column of the last row that the contact cell spans; also after
\* expandLastRowItems, on mobile and desktop widths, for every project count.
C8_PositionsValid ==
  gridCols > 0 =>
    /\ contactCell.row = gridRows
    /\ contactCell.col = 1
    /\ contactCell.end > 1 /\ contactCell.end <= gridCols + 1
    /\ \A i \in 1..nProjects :
         /\ itemPos[i].row \in 1..gridRows
         /\ itemPos[i].col \in 1..gridCols
         /\ itemPos[i].end = itemPos[i].col + 1
         /\ ~(itemPos[i].row = gridRows /\ CoversColumn(contactCell, itemPos[i].col))
    /\ \A i, j \in 1..nProjects :
         (i # j) => <<itemPos[i].row, itemPos[i].col>> # <<itemPos[j].row, itemPos[j].col>>

\* applyLayout has just written a desktop layout whose contact cell was
\* expanded next to a project item of the last row
C8_Witness ==
  /\ written
  /\ ~IsMobile(dims.width)
  /\ contactCell.end > 2
  /\ \E i \in 1..nProjects : itemPos[i].row = gridRows

\* C9: after applyLayout has positioned the items, every column 1..cols of
\* the last row is covered by the contact cell or by a project item.
C9_LastRowCovered ==
  gridCols > 0 =>
    \A c \in 1..gridCols :
      \/ CoversColumn(contactCell, c)
      \/ \E i \in 1..nProjects : itemPos[i].row = gridRows /\ CoversColumn(itemPos[i], c)

\* C4: when the URL has no 'project' parameter, or its value is not the id of
\* an entry of the projects table, initProjectPage and initGalleryPage return
\* early: no module is initialised, no resize listener is registered, no
\* callback is left pending and the document title and DOM are unchanged.
C4_EarlyReturn ==
  (~urlHasParam \/ urlProject \notin ProjectIds) =>
    /\ calls = {}
    /\ listeners = {}
    /\ docTitle = OriginalTitle
    /\ domWrites = {}
    /\ pagePc \in {"loaded", "done"}
    /\ ~visibilityTimer

\* a page initialiser has returned for a non-empty id that is not in the table
C4_Witness ==
  /\ pagePc = "done"
  /\ urlHasParam
  /\ urlProject \notin ProjectIds \cup {""}
  /\ pageKind = "gallery"

\* C10: when the project defines namingPattern, no generated gallery path
\* contains an unreplaced placeholder {id}, {folder}, {i} or {i2}, and the
\* pattern 'images/{id}/{id}-shot-{i}.webp' yields
\* 'images/P-03/P-03-shot-1.webp' for image 1 of project P-03.
C10_PlaceholdersReplaced ==
  (/\ pathsReturned
   /\ pathProject.namingPattern # NoString
   /\ pathProject.galleryImages = << >>
   /\ pathProject.totalImages > 0) =>
    /\ \A k \in 1..Len(galleryPaths) :
         \A placeholder \in Placeholders : IndexOf(galleryPaths[k], placeholder) = 0
    /\ (pathProject.namingPattern = Pattern.shot /\ pathProject.id = Str.p03 /\ ~inTemplates)
         => galleryPaths[1] = ExpectedShot1

\* C5: a gallery image whose error event was handled is marked 'error' and its
\* gallery item is hidden; loadedCount is the number of images handled, loaded
\* or failed alike; once it reaches min(5, 0.2 * total) the removal of the
\* container's 'loading' state is done or requested for the next animation
\* frame, and before that only the 1500 ms fallback removes it.
C5_ErrorsCountLikeLoads ==
  /\ \A r \in DOMAIN giImages :
       (r.stage = "settled" /\ r.event = "error") =>
         /\ r.hidden
         /\ "error" \in r.classes
         /\ "loading" \notin r.classes
  /\ giLoadedCount =
       BagCardinality(Restrict(giImages, {r \in DOMAIN giImages : r.stage = "settled"}))
  /\ 5 * giLoadedCount >= Min(25, giTotal) =>
       (~giContainerLoading \/ giRemovalPending)
  /\ (5 * giLoadedCount < Min(25, giTotal) /\ giSetupPc # "done") =>
       (giContainerLoading /\ ~giRemovalPending)

\* in a gallery of more than 25 images, five images have been handled, loads
\* and errors mixed, and the loading state is gone before the fallback timer
C5_Witness ==
  /\ giTotal > 25
  /\ giLoadedCount = 5
  /\ \E r \in DOMAIN giImages : r.stage = "settled" /\ r.event = "error"
  /\ \E r \in DOMAIN giImages : r.stage = "settled" /\ r.event = "load"
  /\ giSetupPc = "timer1500"
  /\ ~giContainerLoading

\* C11 as stated: without a galleryImages list and with totalImages = N > 0
\* the result has exactly N paths, the k-th being the path generated for
\* image k; with a non-empty galleryImages list and totalImages = N > 0 the
\* result is the first min(N, length) entries of that list, unchanged.
C11_ListEntriesReturned ==
  (pathsReturned /\ pathProject.totalImages > 0) =>
    IF pathProject.galleryImages = << >>
    THEN /\ Len(galleryPaths) = pathProject.totalImages
         /\ \A k \in 1..pathProject.totalImages :
              galleryPaths[k] = FixImagePath(ImagePath(pathProject, k), inTemplates)
    ELSE galleryPaths =
           SubSeq(pathProject.galleryImages, 1,
                  Min(pathProject.totalImages, Len(pathProject.galleryImages)))

\* C11, amended: the same counts and order, where each entry of the manual
\* list is returned as fixImagePath resolves it (prefixed with '../' on a
\* page under templates/ unless it starts with '../' or 'http').
C11_PathsInOrder ==
  (pathsReturned /\ pathProject.totalImages > 0) =>
    IF pathProject.galleryImages = << >>
    THEN /\ Len(galleryPaths) = pathProject.totalImages
         /\ \A k \in 1..pathProject.totalImages :
              galleryPaths[k] = FixImagePath(ImagePath(pathProject, k), inTemplates)
    ELSE /\ Len(galleryPaths) =
              Min(pathProject.totalImages, Len(pathProject.galleryImages))
         /\ \A k \in 1..Len(galleryPaths) :
              galleryPaths[k] = FixImagePath(pathProject.galleryImages[k], inTemplates)

\* a manual list of two entries cut to one on a page under templates/
C11_Witness ==
  /\ pathsReturned
  /\ inTemplates
  /\ pathProject.totalImages = 1
  /\ Len(pathProject.galleryImages) = 2
  /\ Len(galleryPaths) = 1

\* C12: once destroyNavigation has run on the container, no click, touch,
\* mouse or keydown event invokes a callback of a registration that
\* setupNavigation had made on the container before, whatever the sequence of
\* setupNavigation and destroy calls.
C12_NoCallbackAfterDestroy ==
  \A k \in 1..Len(navInvoked) : navInvoked[k][1] \notin navRetired

\* C13 as stated: a touch gesture on a vertical registration invokes onNext
\* exactly once iff the finger ended more than swipeThreshold above its
\* start with |dy| > |dx|, onPrev exactly once iff it ended more than
\* swipeThreshold below with |dy| > |dx|, and nothing otherwise; a touchend
\* with no touchstart before it invokes nothing.
C13_SwipeAsStated ==
  LET dx == navGesture.x - navGesture.startX
      dy == navGesture.y - navGesture.startY
      Count(r, name) == Cardinality({k \in 1..Len(navInvoked) : navInvoked[k] = <<r, name>>})
  IN  /\ navEnded = "touch" =>
           \A r \in 1..Len(navRegs) :
             (navRegs[r].swipe /\ navRegs[r].settings.swipeDirection = "vertical") =>
               /\ Count(r, "onNext") =
                    IF dy < 0 - SwipeThreshold /\ Abs(dy) > Abs(dx) THEN 1 ELSE 0
               /\ Count(r, "onPrev") =
                    IF dy > SwipeThreshold /\ Abs(dy) > Abs(dx) THEN 1 ELSE 0
      /\ navEnded \in {"none", "mouse"} => navInvoked = << >>

\* C13, amended: the same for the touch gesture; a touchend invokes nothing
\* when neither a touchstart nor a mousedown came since the last touchend or
\* completed mouse drag (touchData.isDragging is false).
C13_SwipeInvokes ==
  LET dx == navGesture.x - navGesture.startX
      dy == navGesture.y - navGesture.startY
      Count(r, name) == Cardinality({k \in 1..Len(navInvoked) : navInvoked[k] = <<r, name>>})
  IN  /\ navEnded = "touch" =>
           \A r \in 1..Len(navRegs) :
             (navRegs[r].swipe /\ navRegs[r].settings.swipeDirection = "vertical") =>
               /\ Count(r, "onNext") =
                    IF dy < 0 - SwipeThreshold /\ Abs(dy) > Abs(dx) THEN 1 ELSE 0
               /\ Count(r, "onPrev") =
                    IF dy > SwipeThreshold /\ Abs(dy) > Abs(dx) THEN 1 ELSE 0
      /\ navEnded = "none" => navInvoked = << >>

\* an upward swipe of 51 pixels has just ended on a vertical registration
C13_Witness ==
  /\ navEnded = "touch"
  /\ navGesture.y - navGesture.startY = 0 - 51
  /\ Len(navRegs) = 1
  /\ navRegs[1].settings.swipeDirection = "vertical"
  /\ navInvoked = <<(<<1, "onNext">>)>>

\* C14: the entries of the projects table have pairwise distinct ids, so
\* projects.find(p => p.id === projectId) has at most one entry to select for
\* the value of the URL parameter.
C14_DistinctIds ==
  /\ \A i, j \in DOMAIN ProjectTable : i # j => ProjectTable[i] # ProjectTable[j]
  /\ Cardinality({k \in DOMAIN ProjectTable : ProjectTable[k] = urlProject}) <= 1

\* a page initialiser has looked up an id of the table and gone on
C14_Witness ==
  /\ urlHasParam
  /\ Cardinality({k \in DOMAIN ProjectTable : ProjectTable[k] = urlProject}) = 1
  /\ pagePc = "done"
  /\ calls # {}

\* C15: in every state reached by goToNextSlide / goToPrevSlide calls and
\* timer expiries, the slide carrying class 'current' is
\* slides[currentSlideIndex] and the displayed project id, title and link are
\* those of projects[currentSlideIndex], also when a call arrives while the
\* 300 ms lock is held.
C15_CurrentSlideShown ==
  msSlides > 0 =>
    /\ msCurrent = {msCurrentSlideIndex}
    /\ msShown = msCurrentSlideIndex

\* C16: whenever the lightbox is closed on a page where MobileGallery is
\* initialised, the mobile gallery counter shows 'N / N', for every
\* interleaving of navigation events, the close event and the 50 ms deferred
\* counter updates.
C16_GridCounterWhenClosed ==
  ~mgActive => mgCounter = <<mgImages, mgImages>>

\* C17: on a gallery page initialised at mobile width, when the lightbox
\* becomes active at image i the mobile counter is updated at once to
\* 'i+1 / N', before any navigation event.
C17_CounterOnOpen ==
  (mgLastOp = "openLightbox" /\ mgActive /\ mgProjectCounter = << >>) =>
    mgCounter = <<mgIndex + 1, mgImages>>

\* C18: a click on a gallery item opens the lightbox only if the load event
\* of the item's image has fired; while the image has not finished loading,
\* or after it has failed, the click opens nothing.
C18_OpensOnlyLoaded ==
  (giClicked # << >> /\ giClicked[2]) => giClicked[1].event = "load"

\* C19: the callback passed to preloadImages(imagePaths, callback) is not
\* invoked while a path of imagePaths has an outstanding request that has
\* neither loaded nor failed, whichever call started that request.
C19_CallbackAfterAllLoaded ==
  \A c \in 1..Len(pcCalls) : pcCalls[c].called => pcCalls[c].outstanding = {}

\* C20: whenever showSlide (Slideshow, MobileProject) or updateSlidePositions
\* (MobileSlider) has set isTransitioning, its 300 ms timer is pending to
\* reset it, so the lock is never permanent, whatever the number of slides,
\* none included.
C20_LockHasTimer ==
  /\ ssIsTransitioning => Len(ssTimers) > 0
  /\ mpIsTransitioning => Len(mpTimers) > 0
  /\ msIsTransitioning => Len(msTimers) > 0

\* C21: in a Slideshow or a MobileProject slideshow with n >= 1 slides the
\* current index stays in 0..n-1 after any sequence of prev, next, showSlide(k)
\* and timer expiries; a call accepted with the lock free wraps: next from the
\* last slide shows slide 0, prev from slide 0 shows the last slide, and
\* showSlide(k) shows the last slide for k < 0 and the first one for k >= n.
C21_IndexInBounds ==
  /\ ssSlides >= 1 =>
        /\ ssCurrentIndex \in 0..(ssSlides - 1)
        /\ ssActive = {ssCurrentIndex}
        /\ (ssLastOp.op = "next" /\ ~ssLastOp.locked /\ ssLastOp.from = ssSlides - 1)
              => ssCurrentIndex = 0
        /\ (ssLastOp.op = "prev" /\ ~ssLastOp.locked /\ ssLastOp.from = 0)
              => ssCurrentIndex = ssSlides - 1
        /\ (ssLastOp.op = "showSlide" /\ ~ssLastOp.locked /\ ssLastOp.arg < 0)
              => ssCurrentIndex = ssSlides - 1
        /\ (ssLastOp.op = "showSlide" /\ ~ssLastOp.locked /\ ssLastOp.arg >= ssSlides)
              => ssCurrentIndex = 0
  /\ mpSlides >= 1 =>
        /\ mpCurrentSlideIndex \in 0..(mpSlides - 1)
        /\ mpActive = {mpCurrentSlideIndex}
        /\ (mpLastOp.op = "nextSlide" /\ ~mpLastOp.locked
              /\ mpLastOp.from = mpSlides - 1) => mpCurrentSlideIndex = 0
        /\ (mpLastOp.op = "prevSlide" /\ ~mpLastOp.locked /\ mpLastOp.from = 0)
              => mpCurrentSlideIndex = mpSlides - 1

\* C21 witness: the Slideshow has just accepted showSlide(k) with k beyond the
\* last of at least two slides and shows slide 0, and the MobileProject
\* slideshow has just accepted prevSlide on slide 0 and shows its last slide
C21_Witness ==
  /\ ssSlides >= 2 /\ ssLastOp.op = "showSlide" /\ ~ssLastOp.locked
  /\ ssLastOp.arg >= ssSlides /\ ssLastOp.from = ssSlides - 1 /\ ssCurrentIndex = 0
  /\ mpSlides >= 2 /\ mpLastOp.op = "prevSlide" /\ ~mpLastOp.locked
  /\ mpLastOp.from = 0 /\ mpCurrentSlideIndex = mpSlides - 1

\* C22: the 3-row-preference calculateGridDimensions always returns rows in
\* {3, 4}; it returns rows = 3 whenever the 3-row cell is at least 80% of the
\* minimum cell width and of the minimum cell height of the viewport class, and
\* rows = 4 only when the 3-row cell is narrower or shorter than that.
C22_ThreeRowsWhenViable ==
  cgConfig # NoConfig =>
    LET effectiveItems == EffectiveItems(cgTotalItems, cgWidth)
        viable3 == IsViableSize(cgWidth, cgHeight,
                                CeilDiv(effectiveItems, PreferredRows), PreferredRows)
    IN  /\ cgConfig.rows \in {3, 4}
        /\ viable3 => cgConfig.rows = 3
        /\ cgConfig.rows = 4 => ~viable3

\* C23: after MobileGallery.destroy() no listener, observer or timer installed
\* by MobileGallery remains active, so that later lightbox open/close events,
\* keydown events and timer expiries run no MobileGallery handler and add no
\* new MobileGallery listener.
C23_NothingActiveAfterDestroy ==
  mgDestroyed =>
    /\ ~mgObserving
    /\ ~mgPoll
    /\ ~mgListening
    /\ ~mgCounterObserver
    /\ mgPending = 0

\* C24: at any time every gallery image element carries exactly one of the
\* classes 'loading', 'loaded' and 'error', for every ordering of the lazy-load
\* intersection callback and the image's load or error event.
C24_OneLoadStateClass ==
  \A r \in DOMAIN giImages :
    Cardinality(r.classes \cap {"loading", "loaded", "error"}) = 1

====
